---------------------------- MODULE Spec2Model ----------------------------
(***************************************************************************)
(* A model of the image-upload skill: the error taxonomy, the retrying     *)
(* HTTP transport (fetchWithRetry), the provider registry and adapters,    *)
(* the MIME sniffer and the upload pipeline (uploadImage), and the drop-    *)
(* zone widget of the web page (ImageDropZone).                            *)
(*                                                                         *)
(* Strings the program computes on (provider names, which it lower-cases   *)
(* and looks up) are sequences of one-character strings.  A Buffer is its  *)
(* leading bytes and its byte length.                                      *)
(***************************************************************************)
EXTENDS Integers, Sequences, FiniteSets, TLC

VARIABLES
    \* ---- fetchWithRetry (utils/fetch.ts) ----
    fpc,        \* "idle" | "pending" | "sleeping" | "returned" | "thrown"
    fcall,      \* the arguments of the outermost call: [retries, timeout]
    retries,    \* the `retries` argument of the frame now running
    httpCalls,  \* number of fetch() calls issued so far
    outcomes,   \* how each issued attempt settled, in order
    sleeps,     \* the delays slept so far (ms), in order
    timers,     \* the armed timeout timers: the attempt each belongs to and its delay
    fresult,    \* what the outermost call returned or threw
    \* ---- uploadImage (upload.ts) ----
    pc,         \* the step uploadImage is at
    disk,       \* what is on disk at imagePath
    ui,         \* uploadImage's arguments and local variables
    steps,      \* the steps taken so far, in order
    result,     \* what uploadImage returned or threw
    \* ---- ImageDropZone (components/ImageDropZone.tsx) ----
    dropZone    \* the component's state and the locals of a running handleDrop

fvars == <<fpc, fcall, retries, httpCalls, outcomes, sleeps, timers, fresult>>

pvars == <<pc, disk, ui, steps, result>>

----------------------------------------------------------------------------
(* Bounds of the model *)

\* largest maxRetries a direct caller of fetchWithRetry passes
MaxRetries == 3

----------------------------------------------------------------------------
(* utils/errors.ts : the error taxonomy *)

FILE_SIZE_OVERFLOW == "FILE_SIZE_OVERFLOW"
FILE_TYPE_RESTRICT == "FILE_TYPE_RESTRICT"
FILE_NOT_FOUND     == "FILE_NOT_FOUND"
AUTH_FAILURE       == "AUTH_FAILURE"
NETWORK_ERROR      == "NETWORK_ERROR"
API_ERROR          == "API_ERROR"
INVALID_RESPONSE   == "INVALID_RESPONSE"
CONFIG_ERROR       == "CONFIG_ERROR"

ErrorCategory ==
    { FILE_SIZE_OVERFLOW, FILE_TYPE_RESTRICT, FILE_NOT_FOUND, AUTH_FAILURE,
      NETWORK_ERROR, API_ERROR, INVALID_RESPONSE, CONFIG_ERROR }

\* A message: its template, and the number, the texts and the names (strings
\* the program computed on) substituted in it.
Msg(fmt, num, txt, names) ==
    [fmt |-> fmt, num |-> num, txt |-> txt, names |-> names]

EmptyMsg == Msg("", 0, <<>>, <<>>)

\* `a || b` on messages: an empty string is falsy.
OrElse(m, fallback) == IF m = EmptyMsg THEN fallback ELSE m

NoCause == [name |-> "", message |-> EmptyMsg]

CauseOf(e) == [name |-> e.name, message |-> e.message]

\* new UploadError(message, category, fatal = false, cause?)
UploadError(message, category, fatal, cause) ==
    [ isUploadError |-> TRUE,
      name          |-> "UploadError",
      message       |-> message,
      category      |-> category,
      fatal         |-> fatal,
      cause         |-> cause,
      code          |-> "" ]

\* any other thrown Error: a name and a message (and, for file-system
\* errors, an errno code)
RawError(name, message) ==
    [ isUploadError |-> FALSE,
      name          |-> name,
      message       |-> message,
      category      |-> "",
      fatal         |-> FALSE,
      cause         |-> NoCause,
      code          |-> "" ]

NoError == RawError("", EmptyMsg)

fileSizeError(actualSize, maxSize, provider) ==
    UploadError(Msg("File size (%actual) exceeds %provider limit (%max)",
                    actualSize, <<provider>>, <<>>),
                FILE_SIZE_OVERFLOW, FALSE, NoCause)

fileTypeError(mimeType, supportedTypes, provider) ==
    UploadError(Msg("File type '%mime' is not supported by %provider",
                    0, <<IF mimeType = "" THEN "unknown" ELSE mimeType, provider>>, <<>>),
                FILE_TYPE_RESTRICT, FALSE, NoCause)

authError(provider, details) ==
    UploadError(IF details # ""
                   THEN Msg("%provider authentication failed: %details", 0, <<provider, details>>, <<>>)
                   ELSE Msg("%provider requires authentication", 0, <<provider>>, <<>>),
                AUTH_FAILURE, TRUE, NoCause)

\* a variant of configError that leaves the error non-fatal
configError_NonFatal(provider, missing) ==
    UploadError(Msg("%provider requires %missing", 0, <<provider, missing>>, <<>>),
                CONFIG_ERROR, FALSE, NoCause)

configError(provider, missing) ==
    UploadError(Msg("%provider requires %missing", 0, <<provider, missing>>, <<>>),
                CONFIG_ERROR, TRUE, NoCause)

----------------------------------------------------------------------------
(* Strings the program computes on: sequences of one-character strings *)

UpperCase == <<"A", "B", "C", "D", "E", "F", "G", "H", "I", "J", "K", "L", "M", "N", "O", "P", "Q", "R", "S", "T", "U", "V", "W", "X", "Y", "Z">>
LowerCase == <<"a", "b", "c", "d", "e", "f", "g", "h", "i", "j", "k", "l", "m", "n", "o", "p", "q", "r", "s", "t", "u", "v", "w", "x", "y", "z">>

LowerChar(c) ==
    IF \E k \in 1..Len(UpperCase) : UpperCase[k] = c
      THEN LowerCase[CHOOSE k \in 1..Len(UpperCase) : UpperCase[k] = c]
      ELSE c

\* String.prototype.toLowerCase
toLowerCase(str) == [i \in 1..Len(str) |-> LowerChar(str[i])]

----------------------------------------------------------------------------
(* utils/mime.ts : detectMimeType *)

UNKNOWN_BITMAP_MIME == ""

\* a variant of the table whose second GIF entry accepts any version byte
BITMAP_PATTERN_TABLE_Overlapping ==
    << [ pattern |-> <<0, 0, 1, 0>>,
         mask    |-> <<255, 255, 255, 255>>,
         ignored |-> {},
         type    |-> "image/x-icon" ],
       [ pattern |-> <<0, 0, 2, 0>>,
         mask    |-> <<255, 255, 255, 255>>,
         ignored |-> {},
         type    |-> "image/x-icon" ],
       [ pattern |-> <<66, 77>>,
         mask    |-> <<255, 255>>,
         ignored |-> {},
         type    |-> "image/bmp" ],
       [ pattern |-> <<71, 73, 70, 56, 55, 97>>,
         mask    |-> <<255, 255, 255, 255, 255, 255>>,
         ignored |-> {},
         type    |-> "image/gif" ],
       [ pattern |-> <<71, 73, 70, 56, 0, 97>>,
         mask    |-> <<255, 255, 255, 255, 0, 255>>,
         ignored |-> {},
         type    |-> "image/gif" ],
       [ pattern |-> <<82, 73, 70, 70, 0, 0, 0, 0, 87, 69, 66, 80, 86, 80>>,
         mask    |-> <<255, 255, 255, 255, 0, 0, 0, 0, 255, 255, 255, 255, 255, 255>>,
         ignored |-> {},
         type    |-> "image/webp" ],
       [ pattern |-> <<137, 80, 78, 71, 13, 10, 26, 10>>,
         mask    |-> <<255, 255, 255, 255, 255, 255, 255, 255>>,
         ignored |-> {},
         type    |-> "image/png" ],
       [ pattern |-> <<255, 216, 255>>,
         mask    |-> <<255, 255, 255>>,
         ignored |-> {},
         type    |-> "image/jpeg" ] >>

BITMAP_PATTERN_TABLE ==
    << [ pattern |-> <<0, 0, 1, 0>>,
         mask    |-> <<255, 255, 255, 255>>,
         ignored |-> {},
         type    |-> "image/x-icon" ],
       [ pattern |-> <<0, 0, 2, 0>>,
         mask    |-> <<255, 255, 255, 255>>,
         ignored |-> {},
         type    |-> "image/x-icon" ],
       [ pattern |-> <<66, 77>>,
         mask    |-> <<255, 255>>,
         ignored |-> {},
         type    |-> "image/bmp" ],
       [ pattern |-> <<71, 73, 70, 56, 55, 97>>,
         mask    |-> <<255, 255, 255, 255, 255, 255>>,
         ignored |-> {},
         type    |-> "image/gif" ],
       [ pattern |-> <<71, 73, 70, 56, 57, 97>>,
         mask    |-> <<255, 255, 255, 255, 255, 255>>,
         ignored |-> {},
         type    |-> "image/gif" ],
       [ pattern |-> <<82, 73, 70, 70, 0, 0, 0, 0, 87, 69, 66, 80, 86, 80>>,
         mask    |-> <<255, 255, 255, 255, 0, 0, 0, 0, 255, 255, 255, 255, 255, 255>>,
         ignored |-> {},
         type    |-> "image/webp" ],
       [ pattern |-> <<137, 80, 78, 71, 13, 10, 26, 10>>,
         mask    |-> <<255, 255, 255, 255, 255, 255, 255, 255>>,
         ignored |-> {},
         type    |-> "image/png" ],
       [ pattern |-> <<255, 216, 255>>,
         mask    |-> <<255, 255, 255>>,
         ignored |-> {},
         type    |-> "image/jpeg" ] >>

\* A Buffer: its leading bytes `head`, followed by zero bytes up to `length`.
Buffer(head, length) == [head |-> head, length |-> length]

\* buffer[i], i from 0; past the end JavaScript reads undefined, and
\* undefined & mask is 0
ByteAt(buffer, i) ==
    IF i < Len(buffer.head) /\ i < buffer.length THEN buffer.head[i + 1] ELSE 0

\* x & y on bytes
RECURSIVE BitAnd(_, _)
BitAnd(x, y) ==
    IF x = 0 \/ y = 0 THEN 0
    ELSE (IF x % 2 = 1 /\ y % 2 = 1 THEN 1 ELSE 0) + 2 * BitAnd(x \div 2, y \div 2)

\* the loop skipping ignored bytes at the beginning
RECURSIVE SkipIgnored(_, _, _)
SkipIgnored(buffer, ignored, s) ==
    IF s < buffer.length /\ ByteAt(buffer, s) \in ignored
      THEN SkipIgnored(buffer, ignored, s + 1)
      ELSE s

\* a variant of the matching loop that compares the bytes without the mask
RECURSIVE MatchFrom_NoMask(_, _, _, _)
MatchFrom_NoMask(buffer, item, s, p) ==
    IF p >= Len(item.pattern) THEN TRUE
    ELSE IF ByteAt(buffer, s) # item.pattern[p + 1] THEN FALSE
    ELSE MatchFrom_NoMask(buffer, item, s + 1, p + 1)

\* the loop matching the pattern under the mask, from pattern index p
RECURSIVE MatchFrom(_, _, _, _)
MatchFrom(buffer, item, s, p) ==
    IF p >= Len(item.pattern) THEN TRUE
    ELSE IF BitAnd(ByteAt(buffer, s), item.mask[p + 1]) # item.pattern[p + 1] THEN FALSE
    ELSE MatchFrom(buffer, item, s + 1, p + 1)

isPatternMatch(buffer, item) ==
    IF buffer.length < Len(item.pattern) THEN FALSE
    ELSE MatchFrom(buffer, item, SkipIgnored(buffer, item.ignored, 0), 0)

RECURSIVE DetectFrom(_, _)
DetectFrom(buffer, k) ==
    IF k > Len(BITMAP_PATTERN_TABLE) THEN UNKNOWN_BITMAP_MIME
    ELSE IF isPatternMatch(buffer, BITMAP_PATTERN_TABLE[k]) THEN BITMAP_PATTERN_TABLE[k].type
    ELSE DetectFrom(buffer, k + 1)

detectMimeType(buffer) == DetectFrom(buffer, 1)

----------------------------------------------------------------------------
(* utils/fetch.ts : fetchWithRetry *)

DefaultTimeout == 30000
DefaultRetries == 2
SleepMs        == 1000

\* the statuses the remote answers with
Statuses == {200, 304, 404, 500, 503}

\* response.ok
Ok(status) == status >= 200 /\ status <= 299

StatusText(status) ==
    CASE status = 200 -> "OK"
      [] status = 304 -> "Not Modified"
      [] status = 404 -> "Not Found"
      [] status = 500 -> "Internal Server Error"
      [] status = 503 -> "Service Unavailable"
      [] OTHER        -> ""

Response(attempt, status) == [attempt |-> attempt, status |-> status]
NoResponse == Response(0, 0)

\* what fetch() rejects with
AbortError == RawError("AbortError", Msg("This operation was aborted", 0, <<>>, <<>>))
FetchFailed == RawError("TypeError", Msg("fetch failed", 0, <<>>, <<>>))
SilentError == RawError("Error", EmptyMsg)
ThrownFatal == authError("Remote", "")
ThrownNonFatal == UploadError(Msg("transport hiccup", 0, <<>>, <<>>), API_ERROR, FALSE, NoCause)

\* rejections other than the timeout's abort
RejectErrors == {FetchFailed, SilentError, ThrownFatal, ThrownNonFatal}

HttpError(status) ==
    UploadError(Msg("HTTP %status: %statusText", status, <<StatusText(status)>>, <<>>),
                NETWORK_ERROR, FALSE, NoCause)

\* What a frame does next: retry (sleep, then recurse), return or throw.
Retry         == [do |-> "retry",  response |-> NoResponse, error |-> NoError]
Return(resp)  == [do |-> "return", response |-> resp,       error |-> NoError]
Throw(e)      == [do |-> "throw",  response |-> NoResponse, error |-> e]

\* Variants of the catch block and of the response handling, each with one
\* plausible slip, used to show that the properties below depend on them.
Catch_TimeoutNotRetried(error, r, tmo) ==
    IF error.isUploadError
      THEN IF r > 0 /\ ~error.fatal THEN Retry ELSE Throw(error)
    ELSE IF error.name = "AbortError"
      THEN Throw(UploadError(Msg("Request timed out after %timeout ms", tmo, <<>>, <<>>),
                             NETWORK_ERROR, FALSE, CauseOf(error)))
    ELSE IF r > 0 THEN Retry
    ELSE Throw(UploadError(OrElse(error.message, Msg("Network request failed", 0, <<>>, <<>>)),
                           NETWORK_ERROR, FALSE, CauseOf(error)))

Catch_IgnoresFatal(error, r, tmo) ==
    IF error.isUploadError
      THEN IF r > 0 THEN Retry ELSE Throw(error)
    ELSE IF error.name = "AbortError"
      THEN IF r > 0 THEN Retry
           ELSE Throw(UploadError(Msg("Request timed out after %timeout ms", tmo, <<>>, <<>>),
                                  NETWORK_ERROR, FALSE, CauseOf(error)))
    ELSE IF r > 0 THEN Retry
    ELSE Throw(UploadError(OrElse(error.message, Msg("Network request failed", 0, <<>>, <<>>)),
                           NETWORK_ERROR, FALSE, CauseOf(error)))

Catch_DropsCause(error, r, tmo) ==
    IF error.isUploadError
      THEN IF r > 0 /\ ~error.fatal THEN Retry ELSE Throw(error)
    ELSE IF error.name = "AbortError"
      THEN IF r > 0 THEN Retry
           ELSE Throw(UploadError(Msg("Request timed out after %timeout ms", tmo, <<>>, <<>>),
                                  NETWORK_ERROR, FALSE, NoCause))
    ELSE IF r > 0 THEN Retry
    ELSE Throw(UploadError(OrElse(error.message, Msg("Network request failed", 0, <<>>, <<>>)),
                           NETWORK_ERROR, FALSE, NoCause))

Catch_RetriesAtZero(error, r, tmo) ==
    IF error.isUploadError
      THEN IF r > 0 /\ ~error.fatal THEN Retry ELSE Throw(error)
    ELSE IF error.name = "AbortError"
      THEN IF r > 0 THEN Retry
           ELSE Throw(UploadError(Msg("Request timed out after %timeout ms", tmo, <<>>, <<>>),
                                  NETWORK_ERROR, FALSE, CauseOf(error)))
    ELSE IF r >= 0 THEN Retry
    ELSE Throw(UploadError(OrElse(error.message, Msg("Network request failed", 0, <<>>, <<>>)),
                           NETWORK_ERROR, FALSE, CauseOf(error)))

\* the catch block
Catch(error, r, tmo) ==
    IF error.isUploadError
      THEN IF r > 0 /\ ~error.fatal THEN Retry ELSE Throw(error)
    ELSE IF error.name = "AbortError"
      THEN IF r > 0 THEN Retry
           ELSE Throw(UploadError(Msg("Request timed out after %timeout ms", tmo, <<>>, <<>>),
                                  NETWORK_ERROR, FALSE, CauseOf(error)))
    ELSE IF r > 0 THEN Retry
    ELSE Throw(UploadError(OrElse(error.message, Msg("Network request failed", 0, <<>>, <<>>)),
                           NETWORK_ERROR, FALSE, CauseOf(error)))

OnResponse_RetriesAtZero(resp, r, tmo) ==
    IF ~Ok(resp.status)
      THEN IF resp.status >= 500 /\ r >= 0
             THEN Retry
             ELSE Catch(HttpError(resp.status), r, tmo)
      ELSE Return(resp)

\* the try block once fetch() has resolved: the throw of the HTTP error is
\* inside the try, so the frame's own catch block handles it
OnResponse(resp, r, tmo) ==
    IF ~Ok(resp.status)
      THEN IF resp.status >= 500 /\ r > 0
             THEN Retry
             ELSE Catch(HttpError(resp.status), r, tmo)
      ELSE Return(resp)

Settled(kind, resp, err) == [kind |-> kind, response |-> resp, error |-> err]

NoResult == Settled("none", NoResponse, NoError)

----------------------------------------------------------------------------
(* providers/*.ts : the six adapters' declarations and constructors *)

MB == 1024 * 1024

N_catbox    == <<"c", "a", "t", "b", "o", "x">>
N_imgbb     == <<"i", "m", "g", "b", "b">>
N_imgur     == <<"i", "m", "g", "u", "r">>
N_freeimage == <<"f", "r", "e", "e", "i", "m", "a", "g", "e">>
N_imghippo  == <<"i", "m", "g", "h", "i", "p", "p", "o">>
N_weibo     == <<"w", "e", "i", "b", "o">>

\* ProviderConfig: the keys the adapters read; "" stands for an absent
\* (undefined) or empty value, both falsy.  `present` is FALSE for the
\* undefined that getProviderConfig returns for a missing entry.
ProviderConfig(apiKey, clientId, userHash, cookies) ==
    [ present  |-> TRUE,
      apiKey   |-> apiKey,
      clientId |-> clientId,
      userHash |-> userHash,
      cookies  |-> cookies ]

EmptyConfig == ProviderConfig("", "", "", "")
Undefined == [EmptyConfig EXCEPT !.present = FALSE]

\* Object.keys(config).length
ObjectKeysLength(config) ==
    Cardinality({k \in {"apiKey", "clientId", "userHash", "cookies"} : config[k] # ""})

ImageProvider(name, displayName, requiresConfig, maxFileSize, supportedTypes, secret) ==
    [ name           |-> name,
      displayName    |-> displayName,
      requiresConfig |-> requiresConfig,
      maxFileSize    |-> maxFileSize,
      supportedTypes |-> supportedTypes,
      secret         |-> secret ]

NoProvider == ImageProvider(<<>>, "", FALSE, 0, <<>>, "")

\* what `new ProviderClass(config)` or createProvider gives: an instance, or a throw
Constructed(provider) == [threw |-> FALSE, provider |-> provider, error |-> NoError]
CtorThrew(error) == [threw |-> TRUE, provider |-> NoProvider, error |-> error]

CatboxProvider(config) ==
    Constructed(ImageProvider(N_catbox, "Catbox.moe", FALSE, 200 * MB,
        <<"image/jpeg", "image/png", "image/gif", "image/webp", "image/bmp", "image/x-icon">>,
        config.userHash))

ImgBBProvider(config) ==
    IF config.apiKey = ""
      THEN CtorThrew(configError("ImgBB", "API key (get one free at https://api.imgbb.com/)"))
      ELSE Constructed(ImageProvider(N_imgbb, "ImgBB", TRUE, 32 * MB,
               <<"image/jpeg", "image/png", "image/gif", "image/webp", "image/bmp">>,
               config.apiKey))

ImgurProvider(config) ==
    IF config.clientId = ""
      THEN CtorThrew(configError("Imgur", "Client-ID (register at https://api.imgur.com/oauth2/addclient)"))
      ELSE Constructed(ImageProvider(N_imgur, "Imgur", TRUE, 20 * MB,
               <<"image/jpeg", "image/png", "image/gif", "image/apng", "image/tiff">>,
               config.clientId))

FreeimageProvider(config) ==
    IF config.apiKey = ""
      THEN CtorThrew(configError("Freeimage.host", "API key (get one free at https://freeimage.host/page/api)"))
      ELSE Constructed(ImageProvider(N_freeimage, "Freeimage.host", TRUE, 64 * MB,
               <<"image/jpeg", "image/png", "image/gif", "image/webp", "image/bmp">>,
               config.apiKey))

ImgHippoProvider(config) ==
    IF config.apiKey = ""
      THEN CtorThrew(configError("ImgHippo", "API key (get one at https://www.imghippo.com/)"))
      ELSE Constructed(ImageProvider(N_imghippo, "ImgHippo", TRUE, 50 * MB,
               <<"image/jpeg", "image/png", "image/gif", "image/webp">>,
               config.apiKey))

\* a variant of the Weibo constructor that does not look at the cookies
WeiboProvider_NoCheck(config) ==
    Constructed(ImageProvider(N_weibo, "Weibo (Legacy)", TRUE, 20 * MB - 1,
        <<"image/jpeg", "image/png", "image/apng", "image/gif">>,
        config.cookies))

WeiboProvider(config) ==
    IF config.cookies = ""
      THEN CtorThrew(configError("Weibo", "cookies (export from browser after logging into weibo.com)"))
      ELSE Constructed(ImageProvider(N_weibo, "Weibo (Legacy)", TRUE, 20 * MB - 1,
               <<"image/jpeg", "image/png", "image/apng", "image/gif">>,
               config.cookies))

----------------------------------------------------------------------------
(* providers/index.ts : the registry *)

\* the Map's entries, in insertion order
providerRegistry ==
    << <<N_catbox,    "CatboxProvider">>,
       <<N_imgbb,     "ImgBBProvider">>,
       <<N_imgur,     "ImgurProvider">>,
       <<N_freeimage, "FreeimageProvider">>,
       <<N_imghippo,  "ImgHippoProvider">>,
       <<N_weibo,     "WeiboProvider">> >>

getAvailableProviders == [i \in 1..Len(providerRegistry) |-> providerRegistry[i][1]]

\* providerRegistry.has(key)
RegistryHas(key) == \E i \in 1..Len(providerRegistry) : providerRegistry[i][1] = key

\* providerRegistry.get(key): the class, "" for undefined
RegistryGet(key) ==
    IF RegistryHas(key)
      THEN providerRegistry[CHOOSE i \in 1..Len(providerRegistry) : providerRegistry[i][1] = key][2]
      ELSE ""

\* new ProviderClass(config)
New(class, config) ==
    CASE class = "CatboxProvider"    -> CatboxProvider(config)
      [] class = "ImgBBProvider"     -> ImgBBProvider(config)
      [] class = "ImgurProvider"     -> ImgurProvider(config)
      [] class = "FreeimageProvider" -> FreeimageProvider(config)
      [] class = "ImgHippoProvider"  -> ImgHippoProvider(config)
      [] class = "WeiboProvider"     -> WeiboProvider(config)

\* getProviderInfo(): the static table used for listings
getProviderInfo ==
    << [name |-> N_catbox,    displayName |-> "Catbox.moe",     requiresConfig |-> FALSE, maxFileSize |-> 200 * MB],
       [name |-> N_imgbb,     displayName |-> "ImgBB",          requiresConfig |-> TRUE,  maxFileSize |-> 32 * MB],
       [name |-> N_imgur,     displayName |-> "Imgur",          requiresConfig |-> TRUE,  maxFileSize |-> 20 * MB],
       [name |-> N_freeimage, displayName |-> "Freeimage.host", requiresConfig |-> TRUE,  maxFileSize |-> 64 * MB],
       [name |-> N_imghippo,  displayName |-> "ImgHippo",       requiresConfig |-> TRUE,  maxFileSize |-> 50 * MB],
       [name |-> N_weibo,     displayName |-> "Weibo (Legacy)", requiresConfig |-> TRUE,  maxFileSize |-> 20 * MB] >>

\* a variant that falls back to the default provider for an unknown name
createProvider_FallsBack(name, config) ==
    LET ProviderClass == RegistryGet(toLowerCase(name)) IN
    IF ProviderClass = "" THEN CatboxProvider(config) ELSE New(ProviderClass, config)

createProvider(name, config) ==
    LET normalizedName == toLowerCase(name)
        ProviderClass == RegistryGet(normalizedName)
    IN  IF ProviderClass = ""
          THEN CtorThrew(UploadError(
                   Msg("Unknown provider: %name. Available providers: %list",
                       0, <<>>, <<name>> \o getAvailableProviders),
                   CONFIG_ERROR, TRUE, NoCause))
          ELSE New(ProviderClass, config)

\* a variant of isValidProvider that compares the name as given
isValidProvider_CaseSensitive(name) == RegistryHas(name)

isValidProvider(name) == RegistryHas(toLowerCase(name))

----------------------------------------------------------------------------
(* config/index.ts : loadConfig, getProviderConfig, getRecommendedProvider *)

DEFAULT_PROVIDER == N_catbox

\* process.env after the .env file is loaded; "" and <<>> stand for unset
Env(provider, userHash, imgbbKey, imgurId, freeimageKey, imghippoKey, cookies) ==
    [ IMAGE_UPLOAD_PROVIDER |-> provider,
      CATBOX_USERHASH       |-> userHash,
      IMGBB_API_KEY         |-> imgbbKey,
      IMGUR_CLIENT_ID       |-> imgurId,
      FREEIMAGE_API_KEY     |-> freeimageKey,
      IMGHIPPO_API_KEY      |-> imghippoKey,
      WEIBO_COOKIES         |-> cookies ]

\* config.providers: an entry for catbox always, for the others when the
\* variable is set
LoadedProviders(env) ==
    LET keys == {N_catbox}
                \cup (IF env.IMGBB_API_KEY # "" THEN {N_imgbb} ELSE {})
                \cup (IF env.IMGUR_CLIENT_ID # "" THEN {N_imgur} ELSE {})
                \cup (IF env.FREEIMAGE_API_KEY # "" THEN {N_freeimage} ELSE {})
                \cup (IF env.IMGHIPPO_API_KEY # "" THEN {N_imghippo} ELSE {})
                \cup (IF env.WEIBO_COOKIES # "" THEN {N_weibo} ELSE {})
    IN  [ k \in keys |->
            CASE k = N_catbox    -> ProviderConfig("", "", env.CATBOX_USERHASH, "")
              [] k = N_imgbb     -> ProviderConfig(env.IMGBB_API_KEY, "", "", "")
              [] k = N_imgur     -> ProviderConfig("", env.IMGUR_CLIENT_ID, "", "")
              [] k = N_freeimage -> ProviderConfig(env.FREEIMAGE_API_KEY, "", "", "")
              [] k = N_imghippo  -> ProviderConfig(env.IMGHIPPO_API_KEY, "", "", "")
              [] k = N_weibo     -> ProviderConfig("", "", "", env.WEIBO_COOKIES) ]

loadConfig(env) ==
    [ provider  |-> IF env.IMAGE_UPLOAD_PROVIDER # <<>>
                      THEN env.IMAGE_UPLOAD_PROVIDER ELSE DEFAULT_PROVIDER,
      timeout   |-> DefaultTimeout,
      providers |-> LoadedProviders(env) ]

\* config.providers[providerName]: the key is used as given
getProviderConfig(config, providerName) ==
    IF providerName \in DOMAIN config.providers
      THEN config.providers[providerName]
      ELSE Undefined

\* a variant of getRecommendedProvider that returns the configured default
\* without looking at its configuration
getRecommendedProvider_TrustsDefault(config) == toLowerCase(config.provider)

getRecommendedProvider(config) ==
    LET explicitProvider == toLowerCase(config.provider)
        providerConfig == getProviderConfig(config, explicitProvider)
    IN  IF explicitProvider = N_catbox THEN N_catbox
        ELSE IF providerConfig.present /\ ObjectKeysLength(providerConfig) > 0
          THEN explicitProvider
        ELSE N_catbox

----------------------------------------------------------------------------
(* path.basename and path.extname, on paths without trailing separators *)

\* the last index of character c in str, 0 when there is none
LastIndexOf(str, c) ==
    IF \E i \in 1..Len(str) : str[i] = c
      THEN CHOOSE i \in 1..Len(str) : str[i] = c /\ \A j \in (i + 1)..Len(str) : str[j] # c
      ELSE 0

LastSegment(path) == SubSeq(path, LastIndexOf(path, "/") + 1, Len(path))

extname(path) ==
    LET base == LastSegment(path)
        dot == LastIndexOf(base, ".")
    IN  IF dot <= 1 THEN <<>> ELSE SubSeq(base, dot, Len(base))

EndsWith(str, suffix) ==
    /\ Len(suffix) <= Len(str)
    /\ SubSeq(str, Len(str) - Len(suffix) + 1, Len(str)) = suffix

\* a variant of basename that keeps the extension
basename_KeepsExtension(path, ext) == LastSegment(path)

basename(path, ext) ==
    LET base == LastSegment(path) IN
    IF ext # <<>> /\ base # ext /\ EndsWith(base, ext)
      THEN SubSeq(base, 1, Len(base) - Len(ext))
      ELSE base

----------------------------------------------------------------------------
(* String helpers used by the adapters *)

StartsWith(str, prefix) ==
    /\ Len(prefix) <= Len(str)
    /\ SubSeq(str, 1, Len(prefix)) = prefix

\* String.prototype.includes
Includes(str, sub) ==
    \E i \in 1..(Len(str) - Len(sub) + 1) : SubSeq(str, i, i + Len(sub) - 1) = sub

WhiteSpace == {" ", "\n", "\t", "\r"}

RECURSIVE TrimStart(_)
TrimStart(str) ==
    IF str # <<>> /\ Head(str) \in WhiteSpace THEN TrimStart(Tail(str)) ELSE str

RECURSIVE TrimEnd(_)
TrimEnd(str) ==
    IF str # <<>> /\ str[Len(str)] \in WhiteSpace
      THEN TrimEnd(SubSeq(str, 1, Len(str) - 1))
      ELSE str

\* String.prototype.trim
Trim(str) == TrimEnd(TrimStart(str))

S_https   == <<"h", "t", "t", "p", "s", ":", "/", "/">>
S_image   == <<"i", "m", "a", "g", "e">>
S_png     == <<".", "p", "n", "g">>
S_jpg     == <<".", "j", "p", "g">>
S_gif     == <<".", "g", "i", "f">>
S_webp    == <<".", "w", "e", "b", "p">>
S_bmp     == <<".", "b", "m", "p">>
S_ico     == <<".", "i", "c", "o">>
S_pidOpen == <<"<", "p", "i", "d", ">">>
S_pidEnd  == <<"<", "/", "p", "i", "d", ">">>
S_login   == <<"l", "o", "g", "i", "n">>
\* the three characters of the Chinese "please log in"
S_qingdenglu == <<"U+8BF7", "U+767B", "U+5F55">>

----------------------------------------------------------------------------
(* providers/types.ts : UploadResult and createFormattedOutput *)

\* a variant of createFormattedOutput with url and name swapped in the markdown
createFormattedOutput_SwapsMarkdown(url, name) ==
    [ url      |-> url,
      markdown |-> <<"!", "[">> \o url \o <<"]", "(">> \o name \o <<")">>,
      html     |-> <<"<", "i", "m", "g", " ", "s", "r", "c", "=", "\"">> \o url \o <<"\"", " ", "a", "l", "t", "=", "\"">> \o name \o <<"\"", ">">>,
      bbcode   |-> <<"[", "I", "M", "G", "]">> \o url \o <<"[", "/", "I", "M", "G", "]">> ]

createFormattedOutput(url, name) ==
    [ url      |-> url,
      markdown |-> <<"!", "[">> \o name \o <<"]", "(">> \o url \o <<")">>,
      html     |-> <<"<", "i", "m", "g", " ", "s", "r", "c", "=", "\"">> \o url \o <<"\"", " ", "a", "l", "t", "=", "\"">> \o name \o <<"\"", ">">>,
      bbcode   |-> <<"[", "I", "M", "G", "]">> \o url \o <<"[", "/", "I", "M", "G", "]">> ]

\* createFormattedOutput(url): the call that omits name
createFormattedOutput1(url) == createFormattedOutput(url, S_image)

\* <<>> and 0 stand for undefined optional fields
UploadResult(id, url, viewerUrl, deleteUrl, size, width, height, formatted) ==
    [ id        |-> id,
      url       |-> url,
      viewerUrl |-> viewerUrl,
      deleteUrl |-> deleteUrl,
      size      |-> size,
      width     |-> width,
      height    |-> height,
      formatted |-> formatted ]

NoUploadResult ==
    UploadResult(<<>>, <<>>, <<>>, <<>>, 0, 0, 0,
                 [url |-> <<>>, markdown |-> <<>>, html |-> <<>>, bbcode |-> <<>>])

\* how a block of code ends: with a value or with a throw
Returned(value) == [kind |-> "ok", value |-> value, error |-> NoError]
Raised(error) == [kind |-> "error", value |-> NoUploadResult, error |-> error]
NoOutcome == [kind |-> "none", value |-> NoUploadResult, error |-> NoError]

----------------------------------------------------------------------------
(* Response bodies *)

\* kind: "broken" (reading the body fails), "text" (text that is not JSON),
\* "json" (text that parses as JSON)
Body(kind, text, json) == [kind |-> kind, text |-> text, json |-> json]

JsonData(id, url, viewer, deleteRef, title, size, width, height) ==
    [ id |-> id, url |-> url, viewer |-> viewer, deleteRef |-> deleteRef,
      title |-> title, size |-> size, width |-> width, height |-> height ]

NoData == JsonData(<<>>, <<>>, <<>>, <<>>, <<>>, 0, 0, 0)

\* the fields the four JSON adapters read; `data` is the payload object
\* (`data`, or `image` for Freeimage), hasData whether it is there
Json(isNull, success, statusCode, message, hasData, data) ==
    [ isNull |-> isNull, success |-> success, statusCode |-> statusCode,
      message |-> message, hasData |-> hasData, data |-> data ]

NoJson == Json(TRUE, FALSE, 0, "", FALSE, NoData)

BodyReadError == RawError("TypeError", Msg("terminated", 0, <<>>, <<>>))
JsonSyntaxError == RawError("SyntaxError", Msg("Unexpected token in JSON", 0, <<>>, <<>>))
NullAccessError == RawError("TypeError", Msg("Cannot read properties of null", 0, <<>>, <<>>))

\* await response.text()
ReadText(body) ==
    IF body.kind = "broken" THEN Raised(BodyReadError) ELSE Returned(body.text)

\* await response.json(): Returned holds the parsed object in `value`
ReadJson(body) ==
    CASE body.kind = "broken" -> [kind |-> "error", value |-> NoJson, error |-> BodyReadError]
      [] body.kind = "text"   -> [kind |-> "error", value |-> NoJson, error |-> JsonSyntaxError]
      [] body.kind = "json"   -> [kind |-> "ok", value |-> body.json, error |-> NoError]

\* a variant of the adapters' catch block that wraps every error it catches
AdapterCatch_WrapsAll(outcome, fallback) ==
    IF outcome.kind = "error"
      THEN Raised(UploadError(OrElse(outcome.error.message, Msg(fallback, 0, <<>>, <<>>)),
                              NETWORK_ERROR, FALSE, CauseOf(outcome.error)))
      ELSE outcome

\* the catch block every adapter's upload ends with
AdapterCatch(outcome, fallback) ==
    IF outcome.kind = "error" /\ ~outcome.error.isUploadError
      THEN Raised(UploadError(OrElse(outcome.error.message, Msg(fallback, 0, <<>>, <<>>)),
                              NETWORK_ERROR, FALSE, CauseOf(outcome.error)))
      ELSE outcome

----------------------------------------------------------------------------
(* providers/catbox.ts *)

CatboxExtension(mimeType) ==
    CASE mimeType = "image/jpeg"   -> S_jpg
      [] mimeType = "image/png"    -> S_png
      [] mimeType = "image/gif"    -> S_gif
      [] mimeType = "image/webp"   -> S_webp
      [] mimeType = "image/bmp"    -> S_bmp
      [] mimeType = "image/x-icon" -> S_ico
      [] OTHER                     -> S_png

\* a variant of the Catbox parser that trims the text before testing it
CatboxTry_TrimsFirst(body, filename) ==
    LET read == ReadText(body)
        text == Trim(read.value)
    IN  IF read.kind = "error" THEN Raised(read.error)
        ELSE IF ~StartsWith(text, S_https)
          THEN Raised(UploadError(
                   IF text # <<>> THEN Msg("%text", 0, <<>>, <<text>>)
                                  ELSE Msg("Upload failed - no URL returned", 0, <<>>, <<>>),
                   API_ERROR, FALSE, NoCause))
        ELSE LET url == text
                 id == LastSegment(url)
                 name == IF filename # <<>> THEN filename ELSE id
             IN  Returned(UploadResult(id, url, <<>>, <<>>, 0, 0, 0,
                                       createFormattedOutput(url, name)))

\* a variant of the Catbox parser that formats the text as received
CatboxTry_FormatsUntrimmed(body, filename) ==
    LET read == ReadText(body)
        text == read.value
    IN  IF read.kind = "error" THEN Raised(read.error)
        ELSE IF ~StartsWith(text, S_https)
          THEN Raised(UploadError(
                   IF text # <<>> THEN Msg("%text", 0, <<>>, <<text>>)
                                  ELSE Msg("Upload failed - no URL returned", 0, <<>>, <<>>),
                   API_ERROR, FALSE, NoCause))
        ELSE LET url == Trim(text)
                 id == LastSegment(url)
                 name == IF filename # <<>> THEN filename ELSE id
             IN  Returned(UploadResult(id, url, <<>>, <<>>, 0, 0, 0,
                                       createFormattedOutput(text, name)))

\* the try block of CatboxProvider.upload after the response arrived
CatboxTry(body, filename) ==
    LET read == ReadText(body)
        text == read.value
    IN  IF read.kind = "error" THEN Raised(read.error)
        ELSE IF ~StartsWith(text, S_https)
          THEN Raised(UploadError(
                   IF text # <<>> THEN Msg("%text", 0, <<>>, <<text>>)
                                  ELSE Msg("Upload failed - no URL returned", 0, <<>>, <<>>),
                   API_ERROR, FALSE, NoCause))
        ELSE LET url == Trim(text)
                 id == LastSegment(url)
                 name == IF filename # <<>> THEN filename ELSE id
             IN  Returned(UploadResult(id, url, <<>>, <<>>, 0, 0, 0,
                                       createFormattedOutput(url, name)))

CatboxUpload(body, filename) == AdapterCatch(CatboxTry(body, filename), "Upload to Catbox failed")

----------------------------------------------------------------------------
(* providers/imgbb.ts, imgur.ts, freeimage.ts, imghippo.ts *)

\* a || b || c on strings
Either(a, b) == IF a # <<>> THEN a ELSE b

ApiErrorText(text, fallback) ==
    UploadError(Msg(IF text # "" THEN text ELSE fallback, 0, <<>>, <<>>),
                API_ERROR, FALSE, NoCause)

\* a variant of the ImgBB parser that looks at the payload only
ImgBBTry_IgnoresSuccess(body, filename) ==
    LET read == ReadJson(body)
        json == read.value
    IN  IF read.kind = "error" THEN Raised(read.error)
        ELSE IF json.isNull THEN Raised(NullAccessError)
        ELSE IF ~json.hasData
          THEN Raised(ApiErrorText(json.message, "Upload failed"))
        ELSE LET data == json.data
                 name == Either(data.title, Either(filename, S_image))
             IN  Returned(UploadResult(data.id, data.url, data.viewer, data.deleteRef,
                                       data.size, data.width, data.height,
                                       createFormattedOutput(data.url, name)))

ImgBBTry(body, filename) ==
    LET read == ReadJson(body)
        json == read.value
    IN  IF read.kind = "error" THEN Raised(read.error)
        ELSE IF json.isNull THEN Raised(NullAccessError)
        ELSE IF ~json.success \/ ~json.hasData
          THEN Raised(ApiErrorText(json.message, "Upload failed"))
        ELSE LET data == json.data
                 name == Either(data.title, Either(filename, S_image))
             IN  Returned(UploadResult(data.id, data.url, data.viewer, data.deleteRef,
                                       data.size, data.width, data.height,
                                       createFormattedOutput(data.url, name)))

ImgBBUpload(body, filename) == AdapterCatch(ImgBBTry(body, filename), "Upload to ImgBB failed")

ImgurTry(body, filename) ==
    LET read == ReadJson(body)
        json == read.value
    IN  IF read.kind = "error" THEN Raised(read.error)
        ELSE IF json.isNull THEN Raised(NullAccessError)
        ELSE IF ~json.success \/ ~json.hasData
          THEN Raised(UploadError(Msg("Upload failed with status %status", json.statusCode, <<>>, <<>>),
                                  API_ERROR, FALSE, NoCause))
        ELSE LET data == json.data
                 name == Either(data.title, Either(filename, S_image))
                 deleteUrl == IF data.deleteRef # <<>>
                                THEN <<"h", "t", "t", "p", "s", ":", "/", "/", "i", "m", "g", "u", "r", ".", "c", "o", "m", "/", "d", "e", "l", "e", "t", "e", "/">> \o data.deleteRef
                                ELSE <<>>
             IN  Returned(UploadResult(data.id, data.url, <<"h", "t", "t", "p", "s", ":", "/", "/", "i", "m", "g", "u", "r", ".", "c", "o", "m", "/">> \o data.id,
                                       deleteUrl, data.size, data.width, data.height,
                                       createFormattedOutput(data.url, name)))

ImgurUpload(body, filename) == AdapterCatch(ImgurTry(body, filename), "Upload to Imgur failed")

\* Freeimage: the payload is `image`, its `name` is the id
FreeimageTry(body, filename) ==
    LET read == ReadJson(body)
        json == read.value
    IN  IF read.kind = "error" THEN Raised(read.error)
        ELSE IF json.isNull THEN Raised(NullAccessError)
        ELSE IF json.statusCode # 200 \/ ~json.hasData
          THEN Raised(ApiErrorText(json.message, "Upload failed"))
        ELSE LET image == json.data
                 name == Either(filename, Either(image.id, S_image))
             IN  Returned(UploadResult(image.id, image.url, image.viewer, image.deleteRef,
                                       image.size, image.width, image.height,
                                       createFormattedOutput(image.url, name)))

FreeimageUpload(body, filename) ==
    AdapterCatch(FreeimageTry(body, filename), "Upload to Freeimage.host failed")

ImgHippoExtension(mimeType) ==
    CASE mimeType = "image/jpeg" -> S_jpg
      [] mimeType = "image/png"  -> S_png
      [] mimeType = "image/gif"  -> S_gif
      [] mimeType = "image/webp" -> S_webp
      [] OTHER                   -> S_png

ImgHippoTry(body, filename) ==
    LET read == ReadJson(body)
        json == read.value
    IN  IF read.kind = "error" THEN Raised(read.error)
        ELSE IF json.isNull THEN Raised(NullAccessError)
        ELSE IF ~json.success \/ ~json.hasData
          THEN Raised(ApiErrorText(json.message, "Upload failed"))
        ELSE LET data == json.data
                 name == Either(data.title, Either(filename, S_image))
             IN  Returned(UploadResult(data.id, data.url, data.viewer, data.deleteRef,
                                       data.size, data.width, data.height,
                                       createFormattedOutput(data.url, name)))

ImgHippoUpload(body, filename) ==
    AdapterCatch(ImgHippoTry(body, filename), "Upload to ImgHippo failed")

----------------------------------------------------------------------------
(* providers/weibo.ts *)

IMAGE_HOSTS ==
    << <<"t", "v", "a", "x", "1", ".", "s", "i", "n", "a", "i", "m", "g", ".", "c", "n">>,
       <<"t", "v", "a", "x", "2", ".", "s", "i", "n", "a", "i", "m", "g", ".", "c", "n">>,
       <<"t", "v", "a", "x", "3", ".", "s", "i", "n", "a", "i", "m", "g", ".", "c", "n">>,
       <<"t", "v", "a", "x", "4", ".", "s", "i", "n", "a", "i", "m", "g", ".", "c", "n">>,
       <<"t", "v", "a", "1", ".", "s", "i", "n", "a", "i", "m", "g", ".", "c", "n">>,
       <<"t", "v", "a", "2", ".", "s", "i", "n", "a", "i", "m", "g", ".", "c", "n">>,
       <<"t", "v", "a", "3", ".", "s", "i", "n", "a", "i", "m", "g", ".", "c", "n">>,
       <<"t", "v", "a", "4", ".", "s", "i", "n", "a", "i", "m", "g", ".", "c", "n">> >>

WeiboExtension(mimeType) ==
    CASE mimeType = "image/jpeg" -> S_jpg
      [] mimeType = "image/png"  -> S_png
      [] mimeType = "image/apng" -> S_png
      [] mimeType = "image/gif"  -> S_gif
      [] OTHER                   -> S_jpg

\* the run of characters other than "<" that starts at index i
RECURSIVE RunUntilLt(_, _)
RunUntilLt(str, i) ==
    IF i > Len(str) \/ str[i] = "<" THEN <<>>
    ELSE <<str[i]>> \o RunUntilLt(str, i + 1)

\* whether /<pid>([^<]+)<\/pid>/ matches at index i, and its group
PidAt(str, i) ==
    LET from == i + Len(S_pidOpen)
        run == RunUntilLt(str, from)
        after == SubSeq(str, from + Len(run), Len(str))
    IN  IF /\ StartsWith(SubSeq(str, i, Len(str)), S_pidOpen)
           /\ run # <<>>
           /\ StartsWith(after, S_pidEnd)
          THEN run ELSE <<>>

\* text.match(/<pid>([^<]+)<\/pid>/): the group of the leftmost match, <<>> for no match
PidMatch(str) ==
    IF \E i \in 1..Len(str) : PidAt(str, i) # <<>>
      THEN PidAt(str, CHOOSE i \in 1..Len(str) :
                          /\ PidAt(str, i) # <<>>
                          /\ \A j \in 1..(i - 1) : PidAt(str, j) = <<>>)
      ELSE <<>>

\* a variant of the Weibo parser that looks for the login text first
WeiboTry_LoginFirst(body, filename, mimeType, host) ==
    LET read == ReadText(body)
        text == read.value
        pid == PidMatch(text)
    IN  IF read.kind = "error" THEN Raised(read.error)
        ELSE IF Includes(text, S_login) \/ Includes(text, S_qingdenglu)
          THEN Raised(UploadError(
                   Msg("Weibo session expired. Please update your cookies.", 0, <<>>, <<>>),
                   AUTH_FAILURE, TRUE, NoCause))
        ELSE IF pid = <<>>
          THEN Raised(UploadError(
                   Msg("Failed to parse Weibo response - no PID found", 0, <<>>, <<>>),
                   INVALID_RESPONSE, FALSE, NoCause))
        ELSE LET imageUrl == S_https \o IMAGE_HOSTS[host] \o <<"/", "l", "a", "r", "g", "e", "/">> \o pid
                                 \o WeiboExtension(mimeType)
                 name == Either(filename, pid)
             IN  Returned(UploadResult(pid, imageUrl, <<>>, <<>>, 0, 0, 0,
                                       createFormattedOutput(imageUrl, name)))

\* host: the index Math.floor(Math.random() * IMAGE_HOSTS.length) + 1
WeiboTry(body, filename, mimeType, host) ==
    LET read == ReadText(body)
        text == read.value
        pid == PidMatch(text)
    IN  IF read.kind = "error" THEN Raised(read.error)
        ELSE IF pid = <<>>
          THEN IF Includes(text, S_login) \/ Includes(text, S_qingdenglu)
                 THEN Raised(UploadError(
                          Msg("Weibo session expired. Please update your cookies.", 0, <<>>, <<>>),
                          AUTH_FAILURE, TRUE, NoCause))
                 ELSE Raised(UploadError(
                          Msg("Failed to parse Weibo response - no PID found", 0, <<>>, <<>>),
                          INVALID_RESPONSE, FALSE, NoCause))
        ELSE LET imageUrl == S_https \o IMAGE_HOSTS[host] \o <<"/", "l", "a", "r", "g", "e", "/">> \o pid
                                 \o WeiboExtension(mimeType)
                 name == Either(filename, pid)
             IN  Returned(UploadResult(pid, imageUrl, <<>>, <<>>, 0, 0, 0,
                                       createFormattedOutput(imageUrl, name)))

WeiboUpload(body, filename, mimeType, host) ==
    AdapterCatch(WeiboTry(body, filename, mimeType, host), "Upload to Weibo failed")

----------------------------------------------------------------------------
(* utils/fetch.ts : the steps of fetchWithRetry *)

\* setTimeout(() => controller.abort(), timeout) of one attempt
Timer(attempt, ms) == [attempt |-> attempt, ms |-> ms]

\* entering a frame: arm the timer and issue the request
EnterFrame(r) ==
    /\ retries' = r
    /\ httpCalls' = httpCalls + 1
    /\ timers' = timers \cup {Timer(httpCalls + 1, fcall'.timeout)}
    /\ fpc' = "pending"

\* a variant of Decide that leaves the attempt's timer armed
Decide_KeepsTimer(d) ==
    /\ timers' = timers
    /\ CASE d.do = "retry" ->
              /\ sleeps' = Append(sleeps, SleepMs)
              /\ fpc' = "sleeping"
              /\ fresult' = fresult
         [] d.do = "return" ->
              /\ fpc' = "returned"
              /\ fresult' = Settled("response", d.response, NoError)
              /\ sleeps' = sleeps
         [] d.do = "throw" ->
              /\ fpc' = "thrown"
              /\ fresult' = Settled("error", NoResponse, d.error)
              /\ sleeps' = sleeps
    /\ UNCHANGED <<fcall, retries, httpCalls>>

\* leaving a frame after the attempt settled
Decide(d) ==
    /\ timers' = { t \in timers : t.attempt # httpCalls }
    /\ CASE d.do = "retry" ->
              /\ sleeps' = Append(sleeps, SleepMs)
              /\ fpc' = "sleeping"
              /\ fresult' = fresult
         [] d.do = "return" ->
              /\ fpc' = "returned"
              /\ fresult' = Settled("response", d.response, NoError)
              /\ sleeps' = sleeps
         [] d.do = "throw" ->
              /\ fpc' = "thrown"
              /\ fresult' = Settled("error", NoResponse, d.error)
              /\ sleeps' = sleeps
    /\ UNCHANGED <<fcall, retries, httpCalls>>

\* a direct call fetchWithRetry(url, {timeout}, maxRetries)
FetchCall ==
    /\ fpc = "idle"
    /\ \E r \in 0..MaxRetries, tmo \in {DefaultTimeout, 5000} :
          /\ fcall' = [retries |-> r, timeout |-> tmo]
          /\ EnterFrame(r)
    /\ UNCHANGED <<outcomes, sleeps, fresult>>
    /\ UNCHANGED <<pvars, dropZone>>

\* fetch() resolves with a response
Respond ==
    /\ fpc = "pending"
    /\ \E status \in Statuses :
          LET resp == Response(httpCalls, status) IN
          /\ outcomes' = Append(outcomes, Settled("response", resp, NoError))
          /\ Decide(OnResponse(resp, retries, fcall.timeout))
    /\ UNCHANGED <<pvars, dropZone>>

\* fetch() rejects
Reject ==
    /\ fpc = "pending"
    /\ \E error \in RejectErrors :
          /\ outcomes' = Append(outcomes, Settled("error", NoResponse, error))
          /\ Decide(Catch(error, retries, fcall.timeout))
    /\ UNCHANGED <<pvars, dropZone>>

\* the attempt's timer fires: controller.abort() rejects fetch() with AbortError
TimerFires ==
    /\ fpc = "pending"
    /\ \E t \in timers : t.attempt = httpCalls
    /\ outcomes' = Append(outcomes, Settled("error", NoResponse, AbortError))
    /\ Decide(Catch(AbortError, retries, fcall.timeout))
    /\ UNCHANGED <<pvars, dropZone>>

\* sleep(1000) is over: return fetchWithRetry(url, options, retries - 1)
Wake ==
    /\ fpc = "sleeping"
    /\ UNCHANGED <<fcall, outcomes, sleeps, fresult>>
    /\ EnterFrame(retries - 1)
    /\ UNCHANGED <<pvars, dropZone>>

----------------------------------------------------------------------------
(* upload.ts : reader, purifier *)

\* an error thrown by fs.stat or fs.readFile, with its errno code
FsError(code) ==
    [RawError("Error", Msg("%code: %syscall failed", 0, <<code>>, <<>>)) EXCEPT !.code = code]

\* What is on disk at imagePath.  kind: "ENOENT" (nothing), "EACCES" (stat
\* fails), "directory", "unreadable" (a regular file that readFile cannot
\* open), "file" (a regular file holding `buffer`).
DiskEntry(kind, buffer) == [kind |-> kind, buffer |-> buffer]

NoBuffer == Buffer(<<>>, 0)

\* reader(filePath) up to and including fs.stat
ReaderStat(entry, filePath) ==
    CASE entry.kind = "ENOENT" ->
           Raised(UploadError(Msg("File not found: %path", 0, <<>>, <<filePath>>),
                              FILE_NOT_FOUND, FALSE, NoCause))
      [] entry.kind = "EACCES" ->
           Raised(UploadError(Msg("Failed to read file: %message", 0,
                                  <<FsError("EACCES").message.fmt, "EACCES">>, <<>>),
                              FILE_NOT_FOUND, FALSE, CauseOf(FsError("EACCES"))))
      [] entry.kind = "directory" ->
           Raised(UploadError(Msg("Path is not a file: %path", 0, <<>>, <<filePath>>),
                              FILE_NOT_FOUND, FALSE, NoCause))
      [] OTHER -> NoOutcome

\* a variant of the reader that lets the error of fs.readFile through
ReaderReadFile_Rethrows(entry, filePath) ==
    IF entry.kind = "file"
      THEN [kind |-> "ok", value |-> entry.buffer, error |-> NoError]
      ELSE [kind |-> "error", value |-> NoBuffer, error |-> FsError("EACCES")]

\* reader(filePath) from fs.readFile on
ReaderReadFile(entry, filePath) ==
    IF entry.kind = "file"
      THEN [kind |-> "ok", value |-> entry.buffer, error |-> NoError]
      ELSE [kind |-> "error", value |-> NoBuffer,
            error |-> UploadError(Msg("Failed to read file: %message", 0,
                                      <<FsError("EACCES").message.fmt, "EACCES">>, <<>>),
                                  FILE_NOT_FOUND, FALSE, CauseOf(FsError("EACCES")))]

Includes1(seq, x) == \E i \in 1..Len(seq) : seq[i] = x

\* a variant of purifier that checks the size before the type
purifier_SizeFirst(buffer, mimeType, maxSize, supportedTypes, providerName) ==
    IF buffer.length > maxSize
      THEN fileSizeError(buffer.length, maxSize, providerName)
    ELSE IF mimeType = "" \/ ~Includes1(supportedTypes, mimeType)
      THEN fileTypeError(mimeType, supportedTypes, providerName)
    ELSE NoError

\* variants of purifier, each with one plausible slip
purifier_SkipsUnknownType(buffer, mimeType, maxSize, supportedTypes, providerName) ==
    IF mimeType # "" /\ ~Includes1(supportedTypes, mimeType)
      THEN fileTypeError(mimeType, supportedTypes, providerName)
    ELSE IF buffer.length > maxSize
      THEN fileSizeError(buffer.length, maxSize, providerName)
    ELSE NoError

purifier_NoSizeCheck(buffer, mimeType, maxSize, supportedTypes, providerName) ==
    IF mimeType = "" \/ ~Includes1(supportedTypes, mimeType)
      THEN fileTypeError(mimeType, supportedTypes, providerName)
    ELSE NoError

\* purifier: NoError when the file passes
purifier(buffer, mimeType, maxSize, supportedTypes, providerName) ==
    IF mimeType = "" \/ ~Includes1(supportedTypes, mimeType)
      THEN fileTypeError(mimeType, supportedTypes, providerName)
    ELSE IF buffer.length > maxSize
      THEN fileSizeError(buffer.length, maxSize, providerName)
    ELSE NoError

----------------------------------------------------------------------------
(* The inputs of the model *)

ProviderNames == {N_catbox, N_imgbb, N_imgur, N_freeimage, N_imghippo, N_weibo}

N_ImgBB == <<"I", "m", "g", "B", "B">>
N_notaprovider == <<"n", "o", "t", "a", "p", "r", "o", "v", "i", "d", "e", "r">>

\* options.provider; <<>> when not given
ProviderArgs == {<<>>, N_ImgBB, N_notaprovider} \cup ProviderNames

Path_shot == <<"/", "t", "m", "p", "/", "s", "h", "o", "t", ".", "p", "n", "g">>
Path_raw == <<"r", "a", "w">>

\* imagePath and options.name (<<>> when not given)
CallArgs ==
    { [imagePath |-> Path_shot, name |-> <<>>],
      [imagePath |-> Path_raw, name |-> <<"p", "i", "c">>] }

DefaultArgs == {<<>>, N_imgbb, <<"I", "m", "g", "u", "r">>, <<"n", "o", "p", "e">>}

Envs ==
    { Env(d, "", "", "", "", "", "") : d \in DefaultArgs }
    \cup { Env(<<>>, "", "k-imgbb", "", "", "", ""),
           Env(<<"I", "m", "g", "u", "r">>, "hash", "k-imgbb", "id-imgur", "k-free", "k-hippo", "SUB=1") }

FullConfig == ProviderConfig("key", "id", "hash", "cookies")

\* the adapters' size limits
Limits == { New(providerRegistry[i][2], FullConfig).provider.maxFileSize :
              i \in 1..Len(providerRegistry) }

Head_png  == <<137, 80, 78, 71, 13, 10, 26, 10, 0, 0>>
Head_bmp  == <<66, 77, 54, 0>>
Head_webp == <<82, 73, 70, 70, 36, 0, 0, 0, 87, 69, 66, 80, 86, 80>>
Head_ico  == <<0, 0, 1, 0>>
Head_text == <<104, 105>>

Heads == {Head_png, Head_bmp, Head_webp, Head_ico, Head_text}

\* every kind of file at its shortest; a PNG, a BMP and a text file just
\* over each limit; a PNG exactly at each limit
Buffers ==
    { Buffer(h, Len(h)) : h \in Heads }
    \cup { Buffer(h, l + 1) : h \in {Head_png, Head_bmp, Head_text}, l \in Limits }
    \cup { Buffer(Head_png, l) : l \in Limits }

DiskEntries ==
    { DiskEntry(k, NoBuffer) : k \in {"ENOENT", "EACCES", "directory", "unreadable"} }
    \cup { DiskEntry("file", b) : b \in Buffers }

D_full == JsonData(<<"a", "1">>, <<"h", "t", "t", "p", "s", ":", "/", "/", "i", ".", "h", "/", "a", "1", ".", "p", "n", "g">>, <<"h", "t", "t", "p", "s", ":", "/", "/", "h", "/", "v", "/", "a", "1">>, <<"d", "1">>, <<"a", "r", "t">>, 10, 1, 1)
D_bare == JsonData(<<"a", "1">>, <<"h", "t", "t", "p", "s", ":", "/", "/", "i", ".", "h", "/", "a", "1", ".", "p", "n", "g">>, <<>>, <<>>, <<>>, 0, 0, 0)

JsonBodies ==
    { Body("broken", <<>>, NoJson),
      Body("text", <<"<", "h", "t", "m", "l", ">">>, NoJson),
      Body("json", <<>>, Json(TRUE, FALSE, 0, "", FALSE, NoData)),
      Body("json", <<>>, Json(FALSE, TRUE, 200, "", TRUE, D_full)),
      Body("json", <<>>, Json(FALSE, TRUE, 200, "", TRUE, D_bare)),
      Body("json", <<>>, Json(FALSE, TRUE, 200, "", FALSE, NoData)),
      Body("json", <<>>, Json(FALSE, FALSE, 400, "bad key", FALSE, NoData)),
      Body("json", <<>>, Json(FALSE, FALSE, 400, "", TRUE, D_bare)),
      Body("json", <<>>, Json(FALSE, FALSE, 200, "", TRUE, D_bare)) }

CatboxBodies ==
    { Body("broken", <<>>, NoJson),
      Body("text", <<"h", "t", "t", "p", "s", ":", "/", "/", "c", ".", "m", "o", "e", "/", "a", ".", "p", "n", "g">>, NoJson),
      Body("text", <<"h", "t", "t", "p", "s", ":", "/", "/", "c", ".", "m", "o", "e", "/", "a", ".", "p", "n", "g">> \o <<"\n">>, NoJson),
      Body("text", <<" ">> \o <<"h", "t", "t", "p", "s", ":", "/", "/", "c", ".", "m", "o", "e", "/", "a", ".", "p", "n", "g">>, NoJson),
      Body("text", <<>>, NoJson),
      Body("text", <<"N", "o", " ", "f", "i", "l", "e", "s">>, NoJson) }

WeiboBodies ==
    { Body("broken", <<>>, NoJson),
      Body("text", <<"<", "p", "i", "d", ">", "0", "0", "6", "a", "<", "/", "p", "i", "d", ">">>, NoJson),
      Body("text", <<"<", "d", "a", "t", "a", ">", "l", "o", "g", "i", "n", "<", "p", "i", "d", ">", "0", "0", "6", "a", "<", "/", "p", "i", "d", ">", "<", "/", "d", "a", "t", "a", ">">>, NoJson),
      Body("text", <<"<", "p", "i", "d", ">", "<", "/", "p", "i", "d", ">">>, NoJson),
      Body("text", <<"n", "e", "e", "d", " ", "l", "o", "g", "i", "n">>, NoJson),
      Body("text", S_qingdenglu, NoJson),
      Body("text", <<"<", "h", "t", "m", "l", ">">>, NoJson) }

Bodies(provider) ==
    CASE provider.name = N_catbox -> CatboxBodies
      [] provider.name = N_weibo  -> WeiboBodies
      [] OTHER                    -> JsonBodies

----------------------------------------------------------------------------
(* upload.ts : uploadImage, step by step *)

vars == <<fvars, pvars, dropZone>>

NoConfig == [provider |-> <<>>, timeout |-> 0, providers |-> <<>>]
NoRequest == [url |-> "", credential |-> "", encoding |-> "", filename |-> <<>>, mime |-> ""]

\* no response body read yet
NoBody == Body("none", <<>>, NoJson)

\* the arguments and local variables of uploadImage (and of the adapter's upload)
Frame(imagePath, options, config, providerName, providerConfig) ==
    [ imagePath      |-> imagePath,
      options        |-> options,
      config         |-> config,
      providerName   |-> providerName,
      providerConfig |-> providerConfig,
      provider       |-> NoProvider,
      buffer         |-> NoBuffer,
      mimeType       |-> "",
      filename       |-> <<>>,
      request        |-> NoRequest,
      body           |-> NoBody,
      host           |-> 0 ]

PipelineInit ==
    /\ pc = "idle"
    /\ disk = DiskEntry("ENOENT", NoBuffer)
    /\ ui = Frame(<<>>, [provider |-> <<>>, name |-> <<>>], NoConfig, <<>>, EmptyConfig)
    /\ steps = <<>>
    /\ result = NoOutcome

\* a step of uploadImage throws: the invocation ends with that error
Fail(error) ==
    /\ pc' = "failed"
    /\ result' = Raised(error)

\* uploadImage(imagePath, options) is called: load the configuration and
\* resolve the provider name and its configuration
UploadImage ==
    /\ pc = "idle"
    /\ \E args \in CallArgs, prov \in ProviderArgs, env \in Envs, entry \in DiskEntries :
          LET config == loadConfig(env)
              providerName == IF prov # <<>> THEN prov ELSE getRecommendedProvider(config)
              found == getProviderConfig(config, providerName)
          IN  /\ disk' = entry
              /\ ui' = Frame(args.imagePath, [provider |-> prov, name |-> args.name],
                             config, providerName,
                             IF found.present THEN found ELSE EmptyConfig)
    /\ steps' = Append(steps, "resolve")
    /\ pc' = "construct"
    /\ UNCHANGED result
    /\ UNCHANGED <<fvars, dropZone>>

\* a variant of Construct that swallows the constructor's error and goes on
Construct_SwallowsThrow ==
    /\ pc = "construct"
    /\ steps' = Append(steps, "construct")
    /\ ui' = [ui EXCEPT !.provider = createProvider(ui.providerName, ui.providerConfig).provider]
    /\ pc' = "stat"
    /\ UNCHANGED <<disk, result>>
    /\ UNCHANGED <<fvars, dropZone>>

\* const provider = createProvider(providerName, providerConfig)
Construct ==
    /\ pc = "construct"
    /\ steps' = Append(steps, "construct")
    /\ LET made == createProvider(ui.providerName, ui.providerConfig) IN
         IF made.threw
           THEN Fail(made.error) /\ UNCHANGED ui
           ELSE /\ ui' = [ui EXCEPT !.provider = made.provider]
                /\ pc' = "stat"
                /\ UNCHANGED result
    /\ UNCHANGED disk
    /\ UNCHANGED <<fvars, dropZone>>

\* reader: await fs.stat(filePath) and the isFile check
Stat ==
    /\ pc = "stat"
    /\ steps' = Append(steps, "stat")
    /\ LET out == ReaderStat(disk, ui.imagePath) IN
         IF out.kind = "error"
           THEN Fail(out.error)
           ELSE pc' = "readFile" /\ UNCHANGED result
    /\ UNCHANGED <<disk, ui>>
    /\ UNCHANGED <<fvars, dropZone>>

\* reader: await fs.readFile(filePath)
ReadFile ==
    /\ pc = "readFile"
    /\ steps' = Append(steps, "readFile")
    /\ LET out == ReaderReadFile(disk, ui.imagePath) IN
         IF out.kind = "error"
           THEN Fail(out.error) /\ UNCHANGED ui
           ELSE /\ ui' = [ui EXCEPT !.buffer = out.value]
                /\ pc' = "sniff"
                /\ UNCHANGED result
    /\ UNCHANGED disk
    /\ UNCHANGED <<fvars, dropZone>>

\* const mimeType = detectMimeType(buffer)
Sniff ==
    /\ pc = "sniff"
    /\ steps' = Append(steps, "sniff")
    /\ ui' = [ui EXCEPT !.mimeType = detectMimeType(ui.buffer)]
    /\ pc' = "validate"
    /\ UNCHANGED <<disk, result>>
    /\ UNCHANGED <<fvars, dropZone>>

\* await purifier(buffer, mimeType, provider.maxFileSize, ...)
Validate ==
    /\ pc = "validate"
    /\ steps' = Append(steps, "validate")
    /\ LET error == purifier(ui.buffer, ui.mimeType, ui.provider.maxFileSize,
                             ui.provider.supportedTypes, ui.provider.displayName) IN
         IF error # NoError
           THEN Fail(error)
           ELSE pc' = "upload" /\ UNCHANGED result
    /\ UNCHANGED <<disk, ui>>
    /\ UNCHANGED <<fvars, dropZone>>

\* the request an adapter builds from (filename, mimeType)
BuildRequest(p, name, mime) ==
    CASE p.name = N_catbox ->
           [ url |-> "https://catbox.moe/user/api.php", credential |-> p.secret,
             encoding |-> "multipart",
             filename |-> Either(name, S_image \o CatboxExtension(mime)),
             mime |-> IF mime # "" THEN mime ELSE "application/octet-stream" ]
      [] p.name = N_imgbb ->
           [ url |-> "https://api.imgbb.com/1/upload", credential |-> p.secret,
             encoding |-> "base64", filename |-> name, mime |-> "" ]
      [] p.name = N_imgur ->
           [ url |-> "https://api.imgur.com/3/image", credential |-> p.secret,
             encoding |-> "base64", filename |-> name, mime |-> "" ]
      [] p.name = N_freeimage ->
           [ url |-> "https://freeimage.host/api/1/upload/", credential |-> p.secret,
             encoding |-> "base64", filename |-> <<>>, mime |-> "" ]
      [] p.name = N_imghippo ->
           [ url |-> "https://api.imghippo.com/v1/upload", credential |-> p.secret,
             encoding |-> "multipart",
             filename |-> Either(name, S_image \o ImgHippoExtension(mime)),
             mime |-> IF mime # "" THEN mime ELSE "application/octet-stream" ]
      [] p.name = N_weibo ->
           [ url |-> "https://picupload.weibo.com/interface/pic_upload.php",
             credential |-> p.secret, encoding |-> "raw", filename |-> <<>>,
             mime |-> IF mime # "" THEN mime ELSE "image/jpeg" ]

\* const filename = options.name || basename(...); provider.upload(buffer,
\* filename, mimeType) builds its request and calls fetchWithRetry(url, init)
Upload ==
    /\ pc = "upload"
    /\ steps' = Append(steps, "upload")
    /\ LET name == Either(ui.options.name, basename(ui.imagePath, extname(ui.imagePath))) IN
         ui' = [ui EXCEPT !.filename = name,
                          !.request = BuildRequest(ui.provider, name, ui.mimeType)]
    /\ fcall' = [retries |-> DefaultRetries, timeout |-> DefaultTimeout]
    /\ EnterFrame(DefaultRetries)
    /\ pc' = "fetching"
    /\ UNCHANGED <<disk, result>>
    /\ UNCHANGED <<outcomes, sleeps, fresult, dropZone>>

\* the adapter's upload(body, ...) once fetchWithRetry returned the response
AdapterParse(p, body, name, mime, host) ==
    CASE p.name = N_catbox    -> CatboxUpload(body, name)
      [] p.name = N_imgbb     -> ImgBBUpload(body, name)
      [] p.name = N_imgur     -> ImgurUpload(body, name)
      [] p.name = N_freeimage -> FreeimageUpload(body, name)
      [] p.name = N_imghippo  -> ImgHippoUpload(body, name)
      [] p.name = N_weibo     -> WeiboUpload(body, name, mime, host)

\* a variant of AdapterReturns that asks the remote again when the adapter
\* rejected the body and budget remains
AdapterReturns_RetriesRejected ==
    /\ pc = "fetching"
    /\ fpc = "returned"
    /\ UNCHANGED <<fcall, outcomes, sleeps, fresult, dropZone>>
    /\ \E body \in Bodies(ui.provider),
          host \in (IF ui.provider.name = N_weibo THEN 1..Len(IMAGE_HOSTS) ELSE {1}) :
          LET out == AdapterParse(ui.provider, body, ui.filename, ui.mimeType, host) IN
          /\ ui' = [ui EXCEPT !.body = body, !.host = host]
          /\ IF out.kind = "error" /\ retries > 0
               THEN /\ EnterFrame(retries - 1)
                    /\ UNCHANGED <<pc, result>>
               ELSE /\ result' = out
                    /\ pc' = IF out.kind = "ok" THEN "done" ELSE "failed"
                    /\ UNCHANGED <<retries, httpCalls, timers, fpc>>
    /\ UNCHANGED <<disk, steps>>

\* fetchWithRetry returned: the adapter reads and parses the body, and
\* uploadImage returns its result or ends with its error
AdapterReturns ==
    /\ pc = "fetching"
    /\ fpc = "returned"
    /\ \E body \in Bodies(ui.provider),
          host \in (IF ui.provider.name = N_weibo THEN 1..Len(IMAGE_HOSTS) ELSE {1}) :
          LET out == AdapterParse(ui.provider, body, ui.filename, ui.mimeType, host) IN
          /\ ui' = [ui EXCEPT !.body = body, !.host = host]
          /\ result' = out
          /\ pc' = IF out.kind = "ok" THEN "done" ELSE "failed"
    /\ UNCHANGED <<disk, steps>>
    /\ UNCHANGED <<fvars, dropZone>>

\* the message an adapter's catch block falls back to
CatchFallback(p) ==
    CASE p.name = N_catbox    -> "Upload to Catbox failed"
      [] p.name = N_imgbb     -> "Upload to ImgBB failed"
      [] p.name = N_imgur     -> "Upload to Imgur failed"
      [] p.name = N_freeimage -> "Upload to Freeimage.host failed"
      [] p.name = N_imghippo  -> "Upload to ImgHippo failed"
      [] p.name = N_weibo     -> "Upload to Weibo failed"

\* fetchWithRetry threw: the adapter's catch block, then uploadImage ends
AdapterThrows ==
    /\ pc = "fetching"
    /\ fpc = "thrown"
    /\ Fail(AdapterCatch(Raised(fresult.error), CatchFallback(ui.provider)).error)
    /\ UNCHANGED <<disk, ui, steps>>
    /\ UNCHANGED <<fvars, dropZone>>

----------------------------------------------------------------------------
(* components/ImageDropZone.tsx : the drop-zone widget *)

\* the characters encodeURIComponent escapes, among those of the paths below
UriEscapes ==
    [ c \in {" ", "/", ":", "?", "#", "&", "=", "+", "%"} |->
        CASE c = " " -> <<"%", "2", "0">>
          [] c = "/" -> <<"%", "2", "F">>
          [] c = ":" -> <<"%", "3", "A">>
          [] c = "?" -> <<"%", "3", "F">>
          [] c = "#" -> <<"%", "2", "3">>
          [] c = "&" -> <<"%", "2", "6">>
          [] c = "=" -> <<"%", "3", "D">>
          [] c = "+" -> <<"%", "2", "B">>
          [] OTHER   -> <<"%", "2", "5">> ]

RECURSIVE encodeURIComponent(_)
encodeURIComponent(str) ==
    IF str = <<>> THEN <<>>
    ELSE (IF Head(str) \in DOMAIN UriEscapes THEN UriEscapes[Head(str)] ELSE <<Head(str)>>)
         \o encodeURIComponent(Tail(str))

NoFile == [name |-> "", type |-> ""]

\* acceptedFiles: the drop zone takes one file at a time
DroppedFiles ==
    { <<>>,
      <<[name |-> "cat.png", type |-> "image/png"]>>,
      <<[name |-> "dog.gif", type |-> "image/gif"]>> }

Tokens == {"", "tok"}

\* the answers of POST /v1/discord/image/upload/url
UrlStatuses == {200, 401, 500, 503}

UrlBodies ==
    { [kind |-> "broken", message |-> "", path |-> <<>>],
      [kind |-> "json", message |-> "Invalid token", path |-> <<>>],
      [kind |-> "json", message |-> "", path |-> <<"1", "c", "a", "t", ".", "p", "n", "g">>],
      [kind |-> "json", message |-> "", path |-> <<"u", " ", "1", "/", "d", "o", "g", ".", "g", "i", "f">>] }

\* the statuses axios.put resolves with; with any other it rejects
PutStatuses == {200, 201}

\* useState(false), useState(""), useState(""), useState(""); `at` is where
\* a running handleDrop waits ("idle" when none runs), `ended` how the last
\* call ended ("" before the first call and while one runs)
DropInit ==
    dropZone = [ uploading     |-> FALSE,
                 token         |-> "",
                 error         |-> "",
                 uploadedImg   |-> <<>>,
                 at            |-> "idle",
                 selectedFile  |-> NoFile,
                 authorization |-> "",
                 path          |-> <<>>,
                 ended         |-> "" ]

\* <Input onChange={(e) => setToken(e.target.value)} />
SetToken ==
    /\ \E t \in Tokens : dropZone' = [dropZone EXCEPT !.token = t]
    /\ UNCHANGED <<fvars, pvars>>

\* Dropzone calls onDrop unless disabled={uploading}: handleDrop up to its
\* first await
HandleDrop ==
    /\ ~dropZone.uploading
    /\ \E acceptedFiles \in DroppedFiles :
          IF Len(acceptedFiles) = 0
            THEN dropZone' = [dropZone EXCEPT !.error = "Please select an image first!",
                                              !.ended = "returned"]
            ELSE dropZone' = [dropZone EXCEPT !.error = "",
                                              !.selectedFile = acceptedFiles[1],
                                              !.uploading = TRUE,
                                              !.authorization = dropZone.token,
                                              !.at = "fetch",
                                              !.ended = ""]
    /\ UNCHANGED <<fvars, pvars>>

\* fetch() resolved: the status check, response.json() and the message check
SignedUrlResponds ==
    /\ dropZone.at = "fetch"
    /\ \E status \in UrlStatuses, body \in UrlBodies :
          IF status >= 500
            THEN dropZone' = [dropZone EXCEPT !.error = "Error uploading image",
                                              !.at = "idle", !.ended = "returned"]
          ELSE IF body.kind = "broken"
            THEN dropZone' = [dropZone EXCEPT !.at = "idle", !.ended = "threw"]
          ELSE IF body.message # ""
            THEN dropZone' = [dropZone EXCEPT !.error = body.message,
                                              !.uploading = FALSE,
                                              !.at = "idle", !.ended = "returned"]
          ELSE dropZone' = [dropZone EXCEPT !.path = body.path, !.at = "put"]
    /\ UNCHANGED <<fvars, pvars>>

\* fetch() rejected: nothing catches it, handleDrop's promise rejects
SignedUrlRejects ==
    /\ dropZone.at = "fetch"
    /\ dropZone' = [dropZone EXCEPT !.at = "idle", !.ended = "threw"]
    /\ UNCHANGED <<fvars, pvars>>

\* axios.put resolved
PutResolves ==
    /\ dropZone.at = "put"
    /\ \E status \in PutStatuses :
          dropZone' = [dropZone EXCEPT
              !.uploadedImg = IF status = 200
                                THEN <<"h", "t", "t", "p", "s", ":", "/", "/", "i", "m", "a", "g", "e", ".", "m", "y", "m", "i", "d", "j", "o", "u", "r", "n", "e", "y", ".", "a", "i", "/", "s", "t", "o", "r", "a", "g", "e", "/", "v", "1", "/", "o", "b", "j", "e", "c", "t", "/", "p", "u", "b", "l", "i", "c", "/", "i", "m", "a", "g", "e", "/">>
                                       \o encodeURIComponent(dropZone.path)
                                ELSE dropZone.uploadedImg,
              !.uploading = FALSE,
              !.at = "idle",
              !.ended = "returned"]
    /\ UNCHANGED <<fvars, pvars>>

\* axios.put rejected (a status outside 2xx, or no answer)
PutRejects ==
    /\ dropZone.at = "put"
    /\ dropZone' = [dropZone EXCEPT !.at = "idle", !.ended = "threw"]
    /\ UNCHANGED <<fvars, pvars>>

----------------------------------------------------------------------------
(* Specifications *)

FetchInit ==
    /\ fpc = "idle"
    /\ fcall = [retries |-> 0, timeout |-> DefaultTimeout]
    /\ retries = 0
    /\ httpCalls = 0
    /\ outcomes = <<>>
    /\ sleeps = <<>>
    /\ timers = {}
    /\ fresult = NoResult

InitFetch == FetchInit /\ PipelineInit /\ DropInit

NextFetch == FetchCall \/ Respond \/ Reject \/ TimerFires \/ Wake

SpecFetch == InitFetch /\ [][NextFetch]_vars

Init == FetchInit /\ PipelineInit /\ DropInit

Next ==
    \/ UploadImage
    \/ Construct
    \/ Stat
    \/ ReadFile
    \/ Sniff
    \/ Validate
    \/ Upload
    \/ Respond
    \/ Reject
    \/ TimerFires
    \/ Wake
    \/ AdapterReturns
    \/ AdapterThrows

Spec == Init /\ [][Next]_vars

InitDrop == FetchInit /\ PipelineInit /\ DropInit

NextDrop ==
    \/ SetToken
    \/ HandleDrop
    \/ SignedUrlResponds
    \/ SignedUrlRejects
    \/ PutResolves
    \/ PutRejects

SpecDrop == InitDrop /\ [][NextDrop]_vars

\* The timer settles every pending attempt and every sleep ends.
SpecFetchFair ==
    /\ SpecFetch
    /\ WF_vars(Respond \/ Reject \/ TimerFires)
    /\ WF_vars(Wake)

----------------------------------------------------------------------------
(* Properties of fetchWithRetry, checked under SpecFetch *)

FetchDone == fpc \in {"returned", "thrown"}

IsResponse(o) == o.kind = "response"
Is2xx(o) == IsResponse(o) /\ o.response.status >= 200 /\ o.response.status <= 299
Is4xx(o) == IsResponse(o) /\ o.response.status >= 400 /\ o.response.status <= 499
Is5xx(o) == IsResponse(o) /\ o.response.status >= 500
IsFault(o) == o.kind = "error" /\ ~o.error.isUploadError
IsTimeout(o) == IsFault(o) /\ o.error.name = "AbortError"
IsTransient(o) == Is5xx(o) \/ IsFault(o)
IsFatalThrow(o) == o.kind = "error" /\ o.error.isUploadError /\ o.error.fatal

AllOutcomes(P(_)) == \A i \in 1..Len(outcomes) : P(outcomes[i])

\* C1: a 4xx answer to an attempt is never retried: that attempt is the last
\* HTTP request, no delay follows it, and the call fails at once with the
\* non-fatal NETWORK_ERROR carrying the HTTP status line.
C1_ClientErrorNotRetried ==
    \A i \in 1..Len(outcomes) :
        Is4xx(outcomes[i]) =>
            /\ httpCalls = i
            /\ Len(sleeps) = i - 1
            /\ fpc = "thrown"
            /\ fresult = Settled("error", NoResponse, HttpError(outcomes[i].response.status))

\* C2: when every attempt is answered 5xx, the call makes exactly maxRetries
\* retries (maxRetries + 1 requests) and then fails with NETWORK_ERROR.
C2_ServerErrorsExhaustBudget ==
    (Len(outcomes) >= 1 /\ AllOutcomes(Is5xx)) =>
        /\ httpCalls <= fcall.retries + 1
        /\ Len(outcomes) <= fcall.retries => fpc \in {"sleeping", "pending"}
        /\ Len(outcomes) = fcall.retries + 1 =>
              /\ fpc = "thrown"
              /\ httpCalls = fcall.retries + 1
              /\ Len(sleeps) = fcall.retries
              /\ fresult.kind = "error"
              /\ fresult.error.isUploadError
              /\ fresult.error.category = NETWORK_ERROR

C2_Witness ==
    /\ fpc = "thrown"
    /\ fcall.retries = 2
    /\ httpCalls = 3
    /\ AllOutcomes(Is5xx)

\* C3: k transient failures (5xx, timeout, network fault; k <= maxRetries)
\* are each retried, and a 2xx on attempt k+1 is returned as is, after
\* exactly k retries and with no further attempt.
C3_SuccessAfterTransientFailures ==
    \A k \in 0..Len(outcomes) :
        (k <= fcall.retries /\ \A i \in 1..k : IsTransient(outcomes[i])) =>
            /\ (Len(outcomes) = k /\ fpc # "idle") => fpc \in {"sleeping", "pending"}
            /\ (Len(outcomes) > k /\ Is2xx(outcomes[k + 1])) =>
                  /\ Len(outcomes) = k + 1
                  /\ httpCalls = k + 1
                  /\ Len(sleeps) = k
                  /\ fpc = "returned"
                  /\ fresult = Settled("response", outcomes[k + 1].response, NoError)
                  /\ fresult.response.attempt = k + 1

C3_Witness ==
    /\ fpc = "returned"
    /\ Len(outcomes) = 2
    /\ IsTransient(outcomes[1])
    /\ fresult.response = Response(2, 200)
    /\ Len(sleeps) = 1

\* C4: whatever the attempts' outcomes, a call terminates after at most
\* maxRetries + 1 requests: one budget counts all retries, every retry takes
\* one unit from it and nothing ever gives one back.
C4_BoundedAttempts ==
    /\ [](fpc # "idle" =>
            /\ httpCalls <= fcall.retries + 1
            /\ retries >= 0
            /\ retries = fcall.retries - (httpCalls - 1))
    /\ [][fpc # "idle" =>
            \/ (retries' = retries /\ httpCalls' = httpCalls)
            \/ (retries' = retries - 1 /\ httpCalls' = httpCalls + 1)]_vars
    /\ [](fpc # "idle" => <>FetchDone)

C4_Witness ==
    /\ fpc = "thrown"
    /\ fcall.retries = 3
    /\ httpCalls = 4
    /\ \E i, j, k, l \in 1..4 :
          /\ Is5xx(outcomes[i])
          /\ IsTimeout(outcomes[j])
          /\ IsFault(outcomes[k]) /\ ~IsTimeout(outcomes[k])
          /\ Is4xx(outcomes[l])

\* C5: a fatal UploadError raised by an attempt is re-raised unchanged at
\* once, whatever budget remains: no delay and no further attempt.
C5_FatalRethrownAtOnce ==
    \A i \in 1..Len(outcomes) :
        IsFatalThrow(outcomes[i]) =>
            /\ httpCalls = i
            /\ Len(outcomes) = i
            /\ Len(sleeps) = i - 1
            /\ retries = fcall.retries - (i - 1)
            /\ fpc = "thrown"
            /\ fresult = Settled("error", NoResponse, outcomes[i].error)

C5_Witness ==
    /\ fpc = "thrown"
    /\ IsFatalThrow(outcomes[Len(outcomes)])
    /\ retries >= 2
    /\ fresult.error.fatal
    /\ fresult.error.category = AUTH_FAILURE

\* C6: a network fault (timeout, connection failure) is retried while budget
\* remains, every retry after exactly one delay of 1000 ms and one unit of
\* budget; with the budget exhausted the call fails with a non-fatal
\* NETWORK_ERROR whose cause is the fault.
C6_NetworkFaultsRetriedThenWrapped ==
    /\ \A j \in 1..Len(sleeps) : sleeps[j] = 1000
    /\ fpc = "sleeping" => Len(sleeps) = httpCalls
    /\ fpc \in {"pending", "returned", "thrown"} => Len(sleeps) = httpCalls - 1
    /\ fpc # "idle" => retries = fcall.retries - Len(sleeps) + (IF fpc = "sleeping" THEN 1 ELSE 0)
    /\ (Len(outcomes) = httpCalls /\ httpCalls >= 1 /\ IsFault(outcomes[httpCalls])) =>
          IF retries > 0
            THEN fpc = "sleeping"
            ELSE /\ fpc = "thrown"
                 /\ fresult.kind = "error"
                 /\ fresult.error.isUploadError
                 /\ fresult.error.category = NETWORK_ERROR
                 /\ ~fresult.error.fatal
                 /\ fresult.error.cause = CauseOf(outcomes[httpCalls].error)

C6_Witness ==
    /\ fpc = "thrown"
    /\ fcall.retries = 2
    /\ httpCalls = 3
    /\ AllOutcomes(IsFault)
    /\ fresult.error.cause.name = "AbortError"
    /\ sleeps = <<1000, 1000>>

\* the error a timeout ends with when no budget is left
TimedOut(tmo) ==
    UploadError(Msg("Request timed out after %timeout ms", tmo, <<>>, <<>>),
                NETWORK_ERROR, FALSE, CauseOf(AbortError))

\* C25: every HTTP attempt has its own timer, armed with the call's timeout
\* (30000 ms by default, the caller's value otherwise, the same for every
\* retry); while an attempt is pending its timer is the only one armed, and
\* none is armed once it has settled, so no timer of an earlier attempt is
\* left when the next one starts; a timeout settles only the current attempt
\* and costs one unit of budget like any transient failure: with budget left
\* the call sleeps and retries, without it the call fails with the timeout's
\* NETWORK_ERROR.
C25_EachAttemptHasItsOwnTimer ==
    /\ [](DefaultTimeout = 30000 /\ fcall.timeout \in {DefaultTimeout, 5000})
    /\ [](fpc = "pending" => timers = {Timer(httpCalls, fcall.timeout)})
    /\ [](fpc # "pending" => timers = {})
    /\ [](fpc # "idle" => retries = fcall.retries - (httpCalls - 1))
    /\ []((Len(outcomes) >= 1 /\ httpCalls = Len(outcomes) /\ IsTimeout(outcomes[Len(outcomes)])) =>
            IF retries > 0
              THEN fpc = "sleeping" /\ Len(sleeps) = httpCalls
              ELSE fpc = "thrown" /\ fresult = Settled("error", NoResponse, TimedOut(fcall.timeout)))
    /\ [][fpc # "idle" => fcall' = fcall]_vars
    /\ [][httpCalls' # httpCalls =>
            /\ httpCalls' = httpCalls + 1
            /\ timers = {}
            /\ timers' = {Timer(httpCalls', fcall'.timeout)}]_vars
    /\ [][Len(outcomes') # Len(outcomes) =>
            /\ Len(outcomes') = httpCalls
            /\ httpCalls' = httpCalls]_vars

\* C25 witness: a call with a timeout of 5000 ms whose first attempt timed
\* out is in its second attempt, with that attempt's 5000 ms timer armed.
C25_Witness ==
    /\ fpc = "pending"
    /\ httpCalls = 2
    /\ fcall.timeout = 5000
    /\ IsTimeout(outcomes[1])
    /\ timers = {Timer(2, 5000)}

----------------------------------------------------------------------------
(* Properties of uploadImage, checked under Spec *)

FailedWith(category) ==
    /\ pc = "failed"
    /\ result.kind = "error"
    /\ result.error.isUploadError
    /\ result.error.category = category

\* purifier has run on the file that was read
Validated == Includes1(steps, "validate")

NoNetwork == httpCalls = 0 /\ ~Includes1(steps, "upload")

Oversize == ui.buffer.length > ui.provider.maxFileSize

\* the sniffed type is one the adapter supports
SupportedType == Includes1(ui.provider.supportedTypes, ui.mimeType)

\* the provider names of the model's inputs that, lower-cased, are not registered
UnknownNames == { name \in ProviderArgs : name # <<>> /\ toLowerCase(name) \notin ProviderNames }

\* createProvider throws the fatal CONFIG_ERROR listing the six names for
\* every unknown name
UnknownNamesRejected ==
    \A name \in UnknownNames, cfg \in {EmptyConfig, FullConfig} :
        LET made == createProvider(name, cfg) IN
        /\ made.threw
        /\ made.error.isUploadError
        /\ made.error.category = CONFIG_ERROR
        /\ made.error.fatal
        /\ made.error.message.names[1] = name
        /\ { made.error.message.names[i] : i \in 2..Len(made.error.message.names) }
              = ProviderNames

\* no adapter lists the unknown type "" among its supportedTypes
NoProviderSupportsUnknown ==
    \A i \in 1..Len(providerRegistry) :
        ~Includes1(New(providerRegistry[i][2], FullConfig).provider.supportedTypes, "")

IsPrefix(s, t) == Len(s) <= Len(t) /\ \A i \in 1..Len(s) : s[i] = t[i]

StepOrder == <<"resolve", "construct", "stat", "readFile", "sniff", "validate", "upload">>

\* C7 as stated: whenever the file that was read is longer than the adapter's
\* maxFileSize, uploadImage fails with the non-fatal FILE_SIZE_OVERFLOW and
\* no HTTP request is issued.
C7_OversizeFailsWithSizeOverflow ==
    (Validated /\ Oversize) =>
        /\ FailedWith(FILE_SIZE_OVERFLOW)
        /\ ~result.error.fatal
        /\ NoNetwork

\* C7 amended: a file longer than the adapter's maxFileSize never reaches the
\* network and fails with a non-fatal error; the error is FILE_SIZE_OVERFLOW
\* when the sniffed type is one the adapter supports, and FILE_TYPE_RESTRICT
\* otherwise, because the type is checked before the size.
C7_OversizeNeverUploaded ==
    (Validated /\ Oversize) =>
        /\ pc = "failed"
        /\ NoNetwork
        /\ ~result.error.fatal
        /\ IF SupportedType
             THEN /\ FailedWith(FILE_SIZE_OVERFLOW)
                  /\ result.error = fileSizeError(ui.buffer.length, ui.provider.maxFileSize,
                                                  ui.provider.displayName)
             ELSE FailedWith(FILE_TYPE_RESTRICT)

\* C7 witness: a supported file one byte over the limit was rejected with
\* FILE_SIZE_OVERFLOW before any request.
C7_Witness ==
    /\ FailedWith(FILE_SIZE_OVERFLOW)
    /\ Validated
    /\ SupportedType
    /\ ui.buffer.length = ui.provider.maxFileSize + 1
    /\ httpCalls = 0

\* C8: for every provider, a file whose sniffed type is not among the
\* adapter's supportedTypes fails with the non-fatal FILE_TYPE_RESTRICT and no
\* HTTP request is issued; the unknown type "" is supported by no provider.
C8_UnsupportedTypeFailsWithTypeRestrict ==
    /\ NoProviderSupportsUnknown
    /\ pc = "validate" => ui.mimeType = detectMimeType(ui.buffer)
    /\ (Validated /\ ~SupportedType) =>
          /\ FailedWith(FILE_TYPE_RESTRICT)
          /\ result.error = fileTypeError(ui.mimeType, ui.provider.supportedTypes,
                                          ui.provider.displayName)
          /\ ~result.error.fatal
          /\ NoNetwork

\* C8 witness: a file of unrecognised bytes was rejected with
\* FILE_TYPE_RESTRICT before any request.
C8_Witness ==
    /\ FailedWith(FILE_TYPE_RESTRICT)
    /\ Validated
    /\ ui.buffer.head = Head_text
    /\ ui.mimeType = ""
    /\ httpCalls = 0

\* C9: the steps of uploadImage are taken in the fixed order resolve,
\* construct, read (stat, readFile), sniff, validate, upload, and a step that
\* fails is the last one: when the adapter cannot be constructed the outcome
\* is the constructor's error and the file is never read, whatever is at the
\* path; when the file cannot be read nothing is validated and nothing is
\* requested; when validation fails nothing is requested.
C9_StepsInOrderShortCircuit ==
    /\ IsPrefix(steps, StepOrder)
    /\ httpCalls > 0 => steps = StepOrder
    /\ pc = "failed" => steps # <<>>
    /\ pc = "stat" => createProvider(ui.providerName, ui.providerConfig)
                          = Constructed(ui.provider)
    /\ (Includes1(steps, "construct") /\ ui.provider = NoProvider) =>
          /\ FailedWith(CONFIG_ERROR)
          /\ result.error = createProvider(ui.providerName, ui.providerConfig).error
          /\ steps = <<"resolve", "construct">>
          /\ ui.buffer = NoBuffer
          /\ httpCalls = 0
    /\ (Includes1(steps, "stat") /\ disk.kind \in {"ENOENT", "EACCES", "directory"}) =>
          /\ FailedWith(FILE_NOT_FOUND)
          /\ steps = <<"resolve", "construct", "stat">>
          /\ httpCalls = 0
    /\ (Includes1(steps, "readFile") /\ disk.kind = "unreadable") =>
          /\ FailedWith(FILE_NOT_FOUND)
          /\ steps = <<"resolve", "construct", "stat", "readFile">>
          /\ httpCalls = 0
    /\ (Validated /\ (Oversize \/ ~SupportedType)) =>
          /\ pc = "failed"
          /\ steps = <<"resolve", "construct", "stat", "readFile", "sniff", "validate">>
          /\ httpCalls = 0

\* C9 witness: a registered provider without its configuration and a path
\* where nothing exists: CONFIG_ERROR, and the path was never looked at.
C9_Witness ==
    /\ FailedWith(CONFIG_ERROR)
    /\ ui.providerName \in ProviderNames
    /\ disk.kind = "ENOENT"
    /\ steps = <<"resolve", "construct">>

\* C10: a provider name that, lower-cased, is none of the six registered
\* names makes createProvider throw a fatal CONFIG_ERROR whose message lists
\* the six names; given as uploadImage's provider option it ends the
\* invocation with that error before the file is read or a request issued.
C10_UnknownProviderFailsWithConfigError ==
    /\ Cardinality(ProviderNames) = 6
    /\ N_notaprovider \in UnknownNames
    /\ UnknownNamesRejected
    /\ (Includes1(steps, "construct") /\ ui.options.provider \in UnknownNames) =>
          /\ FailedWith(CONFIG_ERROR)
          /\ result.error.fatal
          /\ { result.error.message.names[i] : i \in 2..Len(result.error.message.names) }
                = ProviderNames
          /\ steps = <<"resolve", "construct">>
          /\ ui.buffer = NoBuffer
          /\ httpCalls = 0

\* C10 witness: uploadImage was asked for "notaprovider" while a readable
\* file was at the path, and ended with the fatal CONFIG_ERROR.
C10_Witness ==
    /\ FailedWith(CONFIG_ERROR)
    /\ result.error.fatal
    /\ ui.options.provider = N_notaprovider
    /\ disk.kind = "file"
    /\ httpCalls = 0

----------------------------------------------------------------------------
(* Properties of the adapters and the registry, checked under Spec *)

\* the configurations a constructor can be given: every key set or not
Configs ==
    { ProviderConfig(k, c, h, w) : k \in {"", "key"}, c \in {"", "id"},
                                   h \in {"", "hash"}, w \in {"", "SUB=1"} }

\* the key each registered name requires; "" for none
RequiredKey(name) ==
    CASE name = N_imgbb     -> "apiKey"
      [] name = N_imgur     -> "clientId"
      [] name = N_freeimage -> "apiKey"
      [] name = N_imghippo  -> "apiKey"
      [] name = N_weibo     -> "cookies"
      [] OTHER              -> ""

\* the resolved names of the model's inputs with the key each requires
RequiredKeyOf ==
    [ name \in { n \in ProviderArgs \cup ProviderNames : RequiredKey(toLowerCase(n)) # "" }
        |-> RequiredKey(toLowerCase(name)) ]

\* every constructor throws the fatal CONFIG_ERROR exactly when its key is
\* missing, and Catbox's never throws
ConstructorsRequireSecret ==
    \A cfg \in Configs, i \in 1..Len(providerRegistry) :
        LET made == New(providerRegistry[i][2], cfg)
            key == RequiredKey(providerRegistry[i][1])
        IN  /\ made.threw <=> (key # "" /\ cfg[key] = "")
            /\ made.threw =>
                  /\ made.error.isUploadError
                  /\ made.error.category = CONFIG_ERROR
                  /\ made.error.fatal
                  /\ made.provider = NoProvider
            /\ ~made.threw =>
                  /\ made.provider.name = providerRegistry[i][1]
                  /\ made.provider.requiresConfig <=> key # ""

\* C11: each of the five adapters that require configuration throws the
\* fatal CONFIG_ERROR from its constructor when its key is absent or empty,
\* Catbox constructs with any configuration, and an invocation of uploadImage
\* whose adapter lacks its key ends at construction: no adapter instance,
\* no file read, no upload.
C11_MissingSecretFailsAtConstruction ==
    /\ ConstructorsRequireSecret
    /\ Cardinality({ n \in ProviderNames : RequiredKey(n) # "" }) = 5
    /\ (Includes1(steps, "construct")
          /\ ui.providerName \in DOMAIN RequiredKeyOf
          /\ ui.providerConfig[RequiredKeyOf[ui.providerName]] = "") =>
          /\ FailedWith(CONFIG_ERROR)
          /\ result.error.fatal
          /\ ui.provider = NoProvider
          /\ steps = <<"resolve", "construct">>
          /\ NoNetwork
    /\ (Includes1(steps, "stat") /\ ui.provider.requiresConfig) => ui.provider.secret # ""

\* C11 witness: uploadImage was asked for Weibo with no cookies configured
\* and ended with the fatal CONFIG_ERROR at construction.
C11_Witness ==
    /\ FailedWith(CONFIG_ERROR)
    /\ result.error.fatal
    /\ ui.providerName = N_weibo
    /\ ui.providerConfig.cookies = ""
    /\ steps = <<"resolve", "construct">>

\* an UploadError is fatal exactly when it is a CONFIG_ERROR or an AUTH_FAILURE
FatalMatchesCategory(e) ==
    e.isUploadError =>
        /\ e.category \in ErrorCategory
        /\ e.fatal <=> e.category \in {CONFIG_ERROR, AUTH_FAILURE}

\* the errors of the helper constructors, the transport's HTTP error, the
\* registry and the six constructors
RaisedByHelpers ==
    { fileSizeError(n, m, p) : n \in {1, 2 * MB}, m \in {0, MB}, p \in {"Catbox.moe", "Imgur"} }
    \cup { fileTypeError(t, <<"image/png">>, p) : t \in {"", "image/bmp"}, p \in {"Catbox.moe", "Imgur"} }
    \cup { authError(p, d) : p \in {"Weibo", "Imgur"}, d \in {"", "expired"} }
    \cup { configError(p, m) : p \in {"Weibo", "Imgur"}, m \in {"API key", "cookies"} }
    \cup { HttpError(s) : s \in Statuses }
    \cup { createProvider(n, cfg).error : n \in ProviderArgs \ {<<>>}, cfg \in Configs }

HasPidTag(text) ==
    \E i \in 1..Len(text), j \in 1..Len(text) :
        /\ j > i + 5
        /\ j + 5 <= Len(text)
        /\ SubSeq(text, i, i + 4) = <<"<", "p", "i", "d", ">">>
        /\ SubSeq(text, j, j + 5) = <<"<", "/", "p", "i", "d", ">">>
        /\ \A k \in (i + 5)..(j - 1) : text[k] # "<"

\* the text holds "login" or the Chinese "please log in"
HasLoginText(text) ==
    \E i \in 1..Len(text) :
        \/ (i + 4 <= Len(text) /\ SubSeq(text, i, i + 4) = <<"l", "o", "g", "i", "n">>)
        \/ (i + 2 <= Len(text) /\ SubSeq(text, i, i + 2) = S_qingdenglu)

\* the Weibo adapter has read the text of a 2xx response and finished
WeiboAnswered ==
    /\ pc \in {"done", "failed"}
    /\ fpc = "returned"
    /\ ui.provider.name = N_weibo
    /\ ui.body.kind = "text"

InfoOf(name) ==
    getProviderInfo[CHOOSE i \in 1..Len(getProviderInfo) : getProviderInfo[i].name = name]

\* the four listed fields of an adapter instance
Declared(p) ==
    [ name |-> p.name, displayName |-> p.displayName,
      requiresConfig |-> p.requiresConfig, maxFileSize |-> p.maxFileSize ]

\* C14: for each of the six providers the descriptor of getProviderInfo
\* equals the name, displayName, requiresConfig and maxFileSize of the
\* adapter createProvider builds, and a file of a supported type no longer
\* than the listed maxFileSize is never rejected for its size.
C14_DescriptorsMatchAdapters ==
    /\ { getProviderInfo[i].name : i \in 1..Len(getProviderInfo) } = ProviderNames
    /\ ui.provider # NoProvider => InfoOf(ui.provider.name) = Declared(ui.provider)
    /\ (Validated /\ SupportedType
          /\ ui.buffer.length <= InfoOf(ui.provider.name).maxFileSize) =>
          ~FailedWith(FILE_SIZE_OVERFLOW)

\* the upper-case form of a character
UpperChar(c) ==
    IF \E k \in 1..Len(LowerCase) : LowerCase[k] = c
      THEN UpperCase[CHOOSE k \in 1..Len(LowerCase) : LowerCase[k] = c]
      ELSE c

\* a name as registered, capitalised, in capitals, and with its last letter a capital
CaseVariants(name) ==
    { name,
      [i \in 1..Len(name) |-> IF i = 1 THEN UpperChar(name[i]) ELSE name[i]],
      [i \in 1..Len(name) |-> UpperChar(name[i])],
      [i \in 1..Len(name) |-> IF i = Len(name) THEN UpperChar(name[i]) ELSE name[i]] }

\* names that differ from every registered name by more than case
ForeignNames ==
    { <<>>, N_notaprovider, N_catbox \o <<" ">>, <<"i", "m", "g">>, <<"i", "m", "g", "-", "b", "b">>,
      <<"W", "E", "I", "B", "0">> }

\* createProvider failed with the unknown-provider error
IsUnknownProviderError(made) ==
    /\ made.threw
    /\ made.error.category = CONFIG_ERROR
    /\ made.error.message.fmt = "Unknown provider: %name. Available providers: %list"

\* the lookups of createProvider and isValidProvider over registered names in
\* any case and over foreign names
LookupIsCaseInsensitive ==
    /\ { providerRegistry[i][1] : i \in 1..Len(providerRegistry) } = ProviderNames
    /\ Len(providerRegistry) = 6
    /\ Cardinality(ProviderNames) = 6
    /\ \A n \in ProviderNames : \A v \in CaseVariants(n), cfg \in {EmptyConfig, FullConfig} :
          /\ isValidProvider(v)
          /\ ~IsUnknownProviderError(createProvider(v, cfg))
          /\ createProvider(v, cfg) = createProvider(n, cfg)
    /\ \A n \in ForeignNames \cup UnknownNames, cfg \in {EmptyConfig, FullConfig} :
          /\ ~isValidProvider(n)
          /\ IsUnknownProviderError(createProvider(n, cfg))

\* C15: createProvider and isValidProvider look a name up without regard to
\* case among exactly the six registered names, and isValidProvider(name) is
\* true exactly when createProvider(name, cfg) does not fail with the
\* unknown-provider CONFIG_ERROR, for the sampled names and for the name
\* every invocation of uploadImage resolves.
C15_LookupCaseInsensitiveAndConsistent ==
    /\ LookupIsCaseInsensitive
    /\ (steps = <<"resolve", "construct">>) =>
          (isValidProvider(ui.providerName)
             <=> ~(FailedWith(CONFIG_ERROR)
                    /\ result.error.message.fmt = "Unknown provider: %name. Available providers: %list"))

\* C15 witness: uploadImage was asked for "ImgBB"; createProvider found the
\* ImgBB adapter, whose constructor then missed its API key.
C15_Witness ==
    /\ steps = <<"resolve", "construct">>
    /\ ui.providerName = N_ImgBB
    /\ FailedWith(CONFIG_ERROR)
    /\ result.error = configError("ImgBB", "API key (get one free at https://api.imgbb.com/)")

\* the adapter's upload has ended
AdapterFinished == Includes1(steps, "upload") /\ pc \in {"done", "failed"}

\* the exception other than an UploadError that reading or parsing this body
\* raises in the adapter; NoError when there is none
RawFailure(p, body) ==
    IF body.kind = "broken" THEN BodyReadError
    ELSE IF p.name \in {N_catbox, N_weibo} THEN NoError
    ELSE IF body.kind = "text" THEN JsonSyntaxError
    ELSE IF body.json.isNull THEN NullAccessError
    ELSE NoError

\* C16: from every adapter's upload, an UploadError of the transport or of
\* response parsing reaches the caller with its category, fatal flag and
\* message unchanged; any other exception reaches it as a non-fatal
\* NETWORK_ERROR with the exception as cause; nothing else escapes.
C16_ClassifiedUnchangedOthersWrapped ==
    /\ result.kind = "error" => result.error.isUploadError
    /\ (AdapterFinished /\ fpc = "thrown") =>
          /\ fresult.error.isUploadError
          /\ result = Raised(fresult.error)
    /\ (AdapterFinished /\ fpc = "returned" /\ RawFailure(ui.provider, ui.body) # NoError) =>
          /\ FailedWith(NETWORK_ERROR)
          /\ ~result.error.fatal
          /\ result.error.cause = CauseOf(RawFailure(ui.provider, ui.body))
          /\ result.error.message = RawFailure(ui.provider, ui.body).message
    /\ (AdapterFinished /\ fpc = "returned" /\ RawFailure(ui.provider, ui.body) = NoError
          /\ result.kind = "error") =>
          /\ result.error.category \in {API_ERROR, AUTH_FAILURE, INVALID_RESPONSE}
          /\ result.error.cause = NoCause

\* C16 witness: a 2xx body that is not JSON made a JSON adapter fail with a
\* NETWORK_ERROR whose cause is the parser's SyntaxError.
C16_Witness ==
    /\ AdapterFinished
    /\ fpc = "returned"
    /\ ui.body.kind = "text"
    /\ ui.provider.name = N_imgur
    /\ FailedWith(NETWORK_ERROR)
    /\ result.error.cause = CauseOf(JsonSyntaxError)

\* the display name the adapter chose for the result it returned
ChosenName ==
    CASE ui.provider.name \in {N_catbox, N_weibo} -> Either(ui.filename, result.value.id)
      [] ui.provider.name = N_freeimage ->
           Either(ui.filename, Either(result.value.id, <<"i", "m", "a", "g", "e">>))
      [] OTHER ->
           Either(ui.body.json.data.title, Either(ui.filename, <<"i", "m", "a", "g", "e">>))

\* the sequence sub occurs in str exactly once
OccursOnce(str, sub) ==
    Cardinality({ i \in 1..(Len(str) - Len(sub) + 1) : SubSeq(str, i, i + Len(sub) - 1) = sub }) = 1

\* uploadImage returned an UploadResult
Succeeded == pc = "done" /\ result.kind = "ok"

\* C17: the formatted strings of every UploadResult an adapter returned are
\* createFormattedOutput of the result's own url and the display name the
\* adapter chose: formatted.url is result.url, and the markdown, html and
\* bbcode strings each hold result.url; the result does not change once
\* returned.
C17_FormattedIsFunctionOfUrlAndName ==
    /\ [](Succeeded =>
            /\ result.value.url # <<>>
            /\ result.value.formatted = createFormattedOutput(result.value.url, ChosenName)
            /\ result.value.formatted.url = result.value.url
            /\ OccursOnce(result.value.formatted.markdown, result.value.url)
            /\ OccursOnce(result.value.formatted.html, result.value.url)
            /\ OccursOnce(result.value.formatted.bbcode, result.value.url))
    /\ [][Succeeded => result' = result]_vars

\* C17 witness: Catbox answered with the URL followed by a line break; the
\* result holds the trimmed URL, in url and in formatted alike.
C17_Witness ==
    /\ Succeeded
    /\ ui.provider.name = N_catbox
    /\ ui.body.text # result.value.url
    /\ result.value.formatted.url = result.value.url

U_xy == <<"h", "t", "t", "p", "s", ":", "/", "/", "x", "/", "y", ".", "p", "n", "g">>
U_long == <<"h", "t", "t", "p", "s", ":", "/", "/", "i", ".", "h", "/", "a", "1", ".", "p", "n", "g", "?", "w", "=", "1", "&", "h", "=", "2">>

\* the urls and names createFormattedOutput is sampled on
FormatUrls == { U_xy, U_long, <<>>, <<"]", "(", "x", ")">> }
FormatNames == { <<"p", "i", "c">>, <<"i", "m", "a", "g", "e">>, <<>>, <<"a", " ", "b">>, <<"\"", "q", "\"">> }

\* the four strings, written out
FormatsAsDocumented(f, url, name) ==
    /\ DOMAIN f = {"url", "markdown", "html", "bbcode"}
    /\ f.url = url
    /\ f.markdown = <<"!", "[">> \o name \o <<"]", "(">> \o url \o <<")">>
    /\ f.html = <<"<", "i", "m", "g", " ", "s", "r", "c", "=", "\"">> \o url \o <<"\"", " ", "a", "l", "t", "=", "\"">> \o name \o <<"\"", ">">>
    /\ f.bbcode = <<"[", "I", "M", "G", "]">> \o url \o <<"[", "/", "I", "M", "G", "]">>

FormatSamplesHold ==
    /\ \A url \in FormatUrls, name \in FormatNames :
          FormatsAsDocumented(createFormattedOutput(url, name), url, name)
    /\ \A url \in FormatUrls :
          FormatsAsDocumented(createFormattedOutput1(url), url, <<"i", "m", "a", "g", "e">>)
    /\ createFormattedOutput(U_xy, <<"p", "i", "c">>).markdown = <<"!", "[", "p", "i", "c", "]", "(", "h", "t", "t", "p", "s", ":", "/", "/", "x", "/", "y", ".", "p", "n", "g", ")">>
    /\ createFormattedOutput(U_xy, <<"p", "i", "c">>).html = <<"<", "i", "m", "g", " ", "s", "r", "c", "=", "\"", "h", "t", "t", "p", "s", ":", "/", "/", "x", "/", "y", ".", "p", "n", "g", "\"", " ", "a", "l", "t", "=", "\"", "p", "i", "c", "\"", ">">>
    /\ createFormattedOutput(U_xy, <<"p", "i", "c">>).bbcode = <<"[", "I", "M", "G", "]", "h", "t", "t", "p", "s", ":", "/", "/", "x", "/", "y", ".", "p", "n", "g", "[", "/", "I", "M", "G", "]">>

\* C18: createFormattedOutput(url, name) gives url unchanged, the markdown
\* "![name](url)", the html "<img src="url" alt="name">" and the bbcode
\* "[IMG]url[/IMG]", with name "image" when omitted, on the sampled urls and
\* names and on the url and name of every result an adapter returns.
C18_FormattedStrings ==
    /\ FormatSamplesHold
    /\ Succeeded => FormatsAsDocumented(result.value.formatted, result.value.url, ChosenName)

\* C18 witness: a returned result whose display name is the title the
\* provider reported, not the file's name.
C18_Witness ==
    /\ Succeeded
    /\ ChosenName # ui.filename
    /\ result.value.formatted.markdown
          = <<"!", "[">> \o ChosenName \o <<"]", "(">> \o result.value.url \o <<")">>

----------------------------------------------------------------------------
(* Properties of the adapters' answers and of the steps of uploadImage,    *)
(* checked under Spec                                                      *)

JsonProviders == {N_imgbb, N_imgur, N_freeimage, N_imghippo}

\* the success signal and the payload an adapter looks for in the parsed body
CarriesSignalAndPayload(p, json) ==
    IF p.name = N_freeimage THEN json.statusCode = 200 /\ json.hasData
                            ELSE json.success /\ json.hasData

\* a JSON adapter got a 2xx response whose body parsed as JSON, and finished
JsonAnswered ==
    /\ AdapterFinished
    /\ fpc = "returned"
    /\ ui.provider.name \in JsonProviders
    /\ ui.body.kind = "json"

IsNonFatal(category) ==
    /\ result.kind = "error"
    /\ result.error.isUploadError
    /\ result.error.category = category
    /\ ~result.error.fatal

\* C21 as stated: for the four JSON providers, upload returns a result if and
\* only if the parsed 2xx body carries both the success signal and the
\* payload; in every other case it fails with a non-fatal API_ERROR.
C21_ResultIffSignalAndPayload ==
    JsonAnswered =>
        IF CarriesSignalAndPayload(ui.provider, ui.body.json)
          THEN pc = "done" /\ result.kind = "ok"
          ELSE pc = "failed" /\ IsNonFatal(API_ERROR)

\* C21 amended: the rule holds for every parsed body other than JSON null;
\* a body that parses to null makes the adapter read a property of null, and
\* the upload fails with a non-fatal NETWORK_ERROR wrapping that TypeError.
C21_ResultIffSignalAndPayloadUnlessNull ==
    JsonAnswered =>
        IF ui.body.json.isNull
          THEN pc = "failed" /\ IsNonFatal(NETWORK_ERROR)
                /\ result.error.cause = CauseOf(NullAccessError)
        ELSE IF CarriesSignalAndPayload(ui.provider, ui.body.json)
          THEN pc = "done" /\ result.kind = "ok"
                /\ result.value.url = ui.body.json.data.url
          ELSE pc = "failed" /\ IsNonFatal(API_ERROR)

\* C21 witness: ImgBB answered 2xx with success false and a payload, and the
\* upload failed with API_ERROR.
C21_Witness ==
    /\ JsonAnswered
    /\ ui.provider.name = N_imgbb
    /\ ~ui.body.json.isNull
    /\ ~ui.body.json.success
    /\ ui.body.json.hasData
    /\ IsNonFatal(API_ERROR)

\* Catbox got a 2xx response whose body could be read, and finished
CatboxAnswered ==
    /\ AdapterFinished
    /\ fpc = "returned"
    /\ ui.provider.name = N_catbox
    /\ ui.body.kind = "text"

\* inner is outer without the white space around it
IsTrimmed(inner, outer) ==
    /\ inner # <<>> => inner[1] \notin WhiteSpace /\ inner[Len(inner)] \notin WhiteSpace
    /\ \E i \in 0..Len(outer) :
         /\ i + Len(inner) <= Len(outer)
         /\ SubSeq(outer, i + 1, i + Len(inner)) = inner
         /\ \A j \in (1..i) \cup ((i + Len(inner) + 1)..Len(outer)) : outer[j] \in WhiteSpace

\* seg is what follows the last "/" of str
IsLastSegment(seg, str) ==
    /\ \A j \in 1..Len(seg) : seg[j] # "/"
    /\ Len(str) > Len(seg)
    /\ SubSeq(str, Len(str) - Len(seg), Len(str)) = <<"/">> \o seg

\* C22: the Catbox adapter succeeds exactly when the 2xx response body starts
\* with "https://"; the result url is then the body without the white space
\* around it and id is the url's last path segment; any other body fails
\* with a non-fatal API_ERROR.
C22_CatboxSucceedsIffHttpsPrefix ==
    CatboxAnswered =>
        IF Len(ui.body.text) >= 8
             /\ SubSeq(ui.body.text, 1, 8) = <<"h", "t", "t", "p", "s", ":", "/", "/">>
          THEN /\ pc = "done" /\ result.kind = "ok"
               /\ IsTrimmed(result.value.url, ui.body.text)
               /\ IsLastSegment(result.value.id, result.value.url)
          ELSE pc = "failed" /\ IsNonFatal(API_ERROR)

\* C22 witness: Catbox answered with a URL preceded by a space, and the
\* upload failed with API_ERROR.
C22_Witness ==
    /\ CatboxAnswered
    /\ Len(ui.body.text) > 9
    /\ ui.body.text[1] = " "
    /\ SubSeq(ui.body.text, 2, 9) = <<"h", "t", "t", "p", "s", ":", "/", "/">>
    /\ IsNonFatal(API_ERROR)

\* how often adapter.upload has been called
UploadCalls == Cardinality({ i \in 1..Len(steps) : steps[i] = "upload" })

\* the name uploadImage derives: the name option when it is not empty, else
\* the source file's name without directory and extension
DerivedName ==
    IF ui.options.name # <<>> THEN ui.options.name
    ELSE IF ui.imagePath = <<"/", "t", "m", "p", "/", "s", "h", "o", "t", ".", "p", "n", "g">>
      THEN <<"s", "h", "o", "t">>
    ELSE ui.imagePath

StartsWithPngSignature(buffer) ==
    /\ Len(buffer.head) >= 8
    /\ SubSeq(buffer.head, 1, 8) = <<137, 80, 78, 71, 13, 10, 26, 10>>

\* C23: for a file that passes validation, uploadImage calls adapter.upload
\* exactly once, with the bytes read from the file, the derived name and the
\* sniffed MIME type (image/png for a buffer that starts with the PNG
\* signature), and returns the adapter's result unmodified: url and id are
\* the values the provider returned.
C23_UploadCalledOnceWithFileNameType ==
    /\ UploadCalls <= 1
    /\ pc \in {"fetching", "done"} => UploadCalls = 1
    /\ UploadCalls = 1 =>
         /\ Validated
         /\ disk.kind = "file" /\ ui.buffer = disk.buffer
         /\ ui.buffer.length <= ui.provider.maxFileSize
         /\ ui.filename = DerivedName
         /\ StartsWithPngSignature(ui.buffer) => ui.mimeType = "image/png"
         /\ ui.request.mime \in {"", ui.mimeType}
         /\ ui.request.filename \in {<<>>, ui.filename}
    /\ (pc = "done" /\ ui.provider.name \in JsonProviders) =>
         /\ result.kind = "ok"
         /\ result.value.url = ui.body.json.data.url
         /\ result.value.id = ui.body.json.data.id

\* C23 witness: a 10-byte PNG at /tmp/shot.png, no name given, was uploaded
\* through ImgBB as "shot" and the result carries the provider's url and id.
C23_Witness ==
    /\ pc = "done"
    /\ ui.provider.name = N_imgbb
    /\ ui.buffer.length = 10
    /\ StartsWithPngSignature(ui.buffer)
    /\ ui.options.name = <<>>
    /\ ui.filename = <<"s", "h", "o", "t">>
    /\ UploadCalls = 1
    /\ result.value.url = ui.body.json.data.url

\* the remote answered 2xx and the adapter rejected the body
Rejected ==
    /\ pc = "failed"
    /\ fpc = "returned"
    /\ result.kind = "error"
    /\ result.error.isUploadError
    /\ result.error.category \in {API_ERROR, INVALID_RESPONSE, AUTH_FAILURE}

\* C24 as stated: adapter.upload is called at most once, and when the remote
\* returns a 2xx response whose body the adapter rejects, the error reaches
\* the caller after exactly one HTTP request.
C24_RejectedAfterExactlyOneRequest ==
    /\ UploadCalls <= 1
    /\ Rejected => httpCalls = 1

\* C24 amended: adapter.upload is called at most once; when the adapter
\* rejects the body of a 2xx response, that response is the answer to the
\* last HTTP request of the invocation (the only 2xx among at most
\* 1 + retries requests, the earlier ones being failures the transport
\* retried), nothing is requested or changed afterwards, and the adapter is
\* the one constructed at the start.
C24_RejectedBodyIsNeverRetried ==
    /\ [](UploadCalls <= 1)
    /\ [](Rejected =>
            /\ httpCalls = Len(outcomes)
            /\ httpCalls <= DefaultRetries + 1
            /\ Len(sleeps) = httpCalls - 1
            /\ Is2xx(outcomes[httpCalls])
            /\ \A i \in 1..(httpCalls - 1) : ~Is2xx(outcomes[i]))
    /\ [][Rejected => (httpCalls' = httpCalls /\ result' = result /\ steps' = steps)]_vars
    /\ [][ui.body # NoBody => httpCalls' = httpCalls]_vars
    /\ [][ui.provider # NoProvider => ui'.provider = ui.provider]_vars

\* C24 witness: the first request was answered 5xx, the second 2xx with a
\* body the adapter rejected with API_ERROR; uploadImage failed after two
\* HTTP requests.
C24_Witness ==
    /\ Rejected
    /\ result.error.category = API_ERROR
    /\ httpCalls = 2
    /\ Is5xx(outcomes[1])
    /\ UploadCalls = 1

\* the step uploadImage took last
LastStep == IF steps = <<>> THEN "" ELSE steps[Len(steps)]

\* the file-read step (fs.stat, then fs.readFile) has run to its end
ReaderRan ==
    \/ LastStep = "stat" /\ pc = "failed"
    \/ Includes1(steps, "readFile")

\* C26: the file-read step fails with a non-fatal FILE_NOT_FOUND when the
\* path does not exist or is not a regular file; every other read failure
\* (permission denied on stat or on read) is a non-fatal UploadError as well,
\* carrying the filesystem error as its cause; a readable regular file is
\* read; and uploadImage never ends with an error that is not an UploadError.
C26_ReadFailuresAreClassified ==
    /\ ReaderRan =>
         CASE disk.kind \in {"ENOENT", "directory"} ->
                /\ LastStep = "stat"
                /\ FailedWith(FILE_NOT_FOUND)
                /\ ~result.error.fatal
                /\ result.error.cause = NoCause
           [] disk.kind \in {"EACCES", "unreadable"} ->
                /\ LastStep = IF disk.kind = "EACCES" THEN "stat" ELSE "readFile"
                /\ FailedWith(FILE_NOT_FOUND)
                /\ ~result.error.fatal
                /\ result.error.cause.name = "Error"
                /\ result.error.cause.message.txt = <<"EACCES">>
           [] disk.kind = "file" ->
                /\ ui.buffer = disk.buffer
                /\ LastStep = "readFile" => pc = "sniff"
    /\ pc = "failed" =>
         /\ result.kind = "error"
         /\ result.error.isUploadError
         /\ result.error.code = ""

\* C26 witness: fs.readFile was denied on a regular file, and uploadImage
\* failed with FILE_NOT_FOUND wrapping the filesystem error.
C26_Witness ==
    /\ disk.kind = "unreadable"
    /\ LastStep = "readFile"
    /\ FailedWith(FILE_NOT_FOUND)
    /\ result.error.cause # NoCause

\* the per-provider configuration uploadImage resolves for a provider name
ResolvedConfig(config, name) ==
    LET found == getProviderConfig(config, name)
    IN  IF found.present THEN found ELSE EmptyConfig

\* C27: uploadImage called with the provider name "ImgBB" resolves the same
\* per-provider configuration and the same adapter as with "imgbb", and
\* its adapter construction succeeds or fails as that of "imgbb" does.
C27_CaseVariantResolvesSameConfig ==
    (ui.options.provider = N_ImgBB /\ Includes1(steps, "construct")) =>
        LET lower == createProvider(N_imgbb, ResolvedConfig(ui.config, N_imgbb)) IN
        /\ ui.providerConfig = ResolvedConfig(ui.config, N_imgbb)
        /\ ui.provider = lower.provider
        /\ lower.threw <=> (steps[Len(steps)] = "construct" /\ FailedWith(CONFIG_ERROR))

\* uploadImage was called without options.provider
DefaultPath == pc # "idle" /\ ui.options.provider = <<>>

\* config.providers has an entry for the name with at least one key
HasNonEmptyEntry(config, name) ==
    /\ name \in DOMAIN config.providers
    /\ \E k \in {"apiKey", "clientId", "userHash", "cookies"} : config.providers[name][k] # ""

\* C28: when no explicit provider is given, the resolved provider is the
\* configured default (in lower case) if that default is catbox or has a
\* non-empty configuration entry, and catbox otherwise; adapter construction
\* then never fails with CONFIG_ERROR and builds the resolved adapter.
C28_DefaultPathNeverConfigError ==
    DefaultPath =>
        LET default == toLowerCase(ui.config.provider) IN
        /\ ui.providerName =
             IF default = N_catbox \/ HasNonEmptyEntry(ui.config, default)
               THEN default ELSE N_catbox
        /\ ui.providerName \in ProviderNames
        /\ ~FailedWith(CONFIG_ERROR)
        /\ Includes1(steps, "construct") =>
             /\ ui.provider # NoProvider
             /\ ui.provider.name = ui.providerName

\* C28 witness: the configured default is imgbb, no API key is configured,
\* no provider was given, and the Catbox adapter was constructed.
C28_Witness ==
    /\ DefaultPath
    /\ ui.config.provider = N_imgbb
    /\ N_imgbb \notin DOMAIN ui.config.providers
    /\ Includes1(steps, "construct")
    /\ ui.provider.name = N_catbox

\* the validation step threw
ValidationFailed == pc = "failed" /\ LastStep = "validate"

\* C29: validation checks the MIME type before the size, and the size with a
\* strict comparison: a file of an unsupported type that is also over the
\* size cap fails with FILE_TYPE_RESTRICT, a file of a supported type whose
\* length equals maxFileSize passes, and one of maxFileSize + 1 bytes fails
\* with FILE_SIZE_OVERFLOW.
C29_TypeBeforeSizeStrictLimit ==
    Validated =>
        /\ (~SupportedType /\ Oversize) =>
              ValidationFailed /\ FailedWith(FILE_TYPE_RESTRICT)
        /\ (SupportedType /\ ui.buffer.length = ui.provider.maxFileSize) =>
              ~ValidationFailed
        /\ (SupportedType /\ ui.buffer.length = ui.provider.maxFileSize + 1) =>
              ValidationFailed /\ FailedWith(FILE_SIZE_OVERFLOW)

\* C29 witness: a file of no known image type, longer than the adapter's
\* cap, was rejected with FILE_TYPE_RESTRICT.
C29_Witness ==
    /\ Validated
    /\ ui.mimeType = ""
    /\ Oversize
    /\ ValidationFailed
    /\ FailedWith(FILE_TYPE_RESTRICT)

----------------------------------------------------------------------------
(* Properties of ImageDropZone, checked under SpecDrop *)

\* a handleDrop call has finished and none is running
DropFinished == dropZone.at = "idle" /\ dropZone.ended # ""

\* C30: every handleDrop call, once it has finished, leaves the uploading
\* flag false, so that the drop zone is enabled again.
C30_UploadingFalseAfterEveryDrop ==
    DropFinished => ~dropZone.uploading

----------------------------------------------------------------------------
(* detectMimeType on its own: the Sniff step on a family of buffers *)

\* the values a byte is changed by, and the values put where the mask is 0
ByteShifts == {1, 128, 255}
FreeBytes == {0, 36, 255}

\* the pattern of entry k with every byte under mask 0 set to v
Wild(k, v) ==
    [ p \in 1..Len(BITMAP_PATTERN_TABLE[k].pattern) |->
        IF BITMAP_PATTERN_TABLE[k].mask[p] = 0 THEN v ELSE BITMAP_PATTERN_TABLE[k].pattern[p] ]

\* bytes with the byte at position q shifted by d
Shifted(bytes, q, d) == [bytes EXCEPT ![q] = (bytes[q] + d) % 256]

\* for every entry: its pattern with each free byte value, alone and followed
\* by more bytes; the same with any one byte changed; every proper prefix
MimeBuffers ==
    UNION { { Buffer(Wild(k, v), Len(Wild(k, v))) : v \in FreeBytes }
            \cup { Buffer(Wild(k, v) \o <<7, 0, 9>>, Len(Wild(k, v)) + 3) : v \in FreeBytes }
            \cup { Buffer(Wild(k, v), Len(Wild(k, v)) + 100) : v \in FreeBytes }
            \cup { Buffer(Shifted(Wild(k, 36), q, d), Len(Wild(k, 36))) :
                     q \in 1..Len(BITMAP_PATTERN_TABLE[k].pattern), d \in ByteShifts }
            \cup { Buffer(SubSeq(Wild(k, 36), 1, n), n) :
                     n \in 0..(Len(BITMAP_PATTERN_TABLE[k].pattern) - 1) }
          : k \in 1..Len(BITMAP_PATTERN_TABLE) }

\* uploadImage has read a file holding one of these buffers and is about to
\* sniff its type
InitMime ==
    /\ FetchInit
    /\ DropInit
    /\ pc = "sniff"
    /\ steps = <<"resolve", "construct", "stat", "readFile">>
    /\ result = NoOutcome
    /\ \E b \in MimeBuffers :
          LET config == loadConfig(Env(<<>>, "", "", "", "", "", ""))
              found == getProviderConfig(config, N_catbox)
          IN  /\ disk = DiskEntry("file", b)
              /\ ui = [ Frame(Path_raw, [provider |-> <<>>, name |-> <<>>], config, N_catbox,
                              IF found.present THEN found ELSE EmptyConfig)
                        EXCEPT !.provider = createProvider(N_catbox, found).provider,
                               !.buffer = b ]

NextMime == Sniff

SpecMime == InitMime /\ [][NextMime]_vars

----------------------------------------------------------------------------
(* Properties of detectMimeType, checked under SpecMime *)

\* the byte of the buffer at position p, from 1
ByteOf(b, p) == IF p <= Len(b.head) THEN b.head[p] ELSE 0

\* the leading bytes of the buffer satisfy entry k: equal to the pattern
\* where the mask is 0xff, anything where it is 0x00
Satisfies(b, k) ==
    /\ b.length >= Len(BITMAP_PATTERN_TABLE[k].pattern)
    /\ \A p \in 1..Len(BITMAP_PATTERN_TABLE[k].pattern) :
          BITMAP_PATTERN_TABLE[k].mask[p] = 255 =>
              ByteOf(b, p) = BITMAP_PATTERN_TABLE[k].pattern[p]

\* every mask byte is 0xff or 0x00, with a zero pattern byte under 0x00
MasksAreAllOrNothing ==
    \A k \in 1..Len(BITMAP_PATTERN_TABLE) :
        /\ Len(BITMAP_PATTERN_TABLE[k].mask) = Len(BITMAP_PATTERN_TABLE[k].pattern)
        /\ \A p \in 1..Len(BITMAP_PATTERN_TABLE[k].pattern) :
              \/ BITMAP_PATTERN_TABLE[k].mask[p] = 255
              \/ BITMAP_PATTERN_TABLE[k].mask[p] = 0 /\ BITMAP_PATTERN_TABLE[k].pattern[p] = 0

Sniffed == pc = "validate" /\ steps = <<"resolve", "construct", "stat", "readFile", "sniff">>

\* C19: a buffer whose leading bytes satisfy an entry under its mask is
\* given that entry's type; an entry matches exactly the buffers that
\* satisfy it, so a changed byte under mask 0xff stops the match, bytes
\* under mask 0x00 do not matter, and a buffer shorter than the pattern
\* never matches; a buffer of fewer than 2 bytes is unknown.
C19_PatternMatchUnderMask ==
    /\ MasksAreAllOrNothing
    /\ Sniffed =>
          /\ ui.buffer = disk.buffer
          /\ \A k \in 1..Len(BITMAP_PATTERN_TABLE) :
                /\ isPatternMatch(ui.buffer, BITMAP_PATTERN_TABLE[k]) <=> Satisfies(ui.buffer, k)
                /\ Satisfies(ui.buffer, k) => ui.mimeType = BITMAP_PATTERN_TABLE[k].type
                /\ ui.buffer.length < Len(BITMAP_PATTERN_TABLE[k].pattern) =>
                      ~isPatternMatch(ui.buffer, BITMAP_PATTERN_TABLE[k])
          /\ (\A k \in 1..Len(BITMAP_PATTERN_TABLE) : ~Satisfies(ui.buffer, k)) =>
                ui.mimeType = UNKNOWN_BITMAP_MIME
          /\ ui.buffer.length < 2 => ui.mimeType = ""

\* C19 witness: a RIFF....WEBPVP buffer with non-zero bytes under the zero
\* mask was sniffed as image/webp.
C19_Witness ==
    /\ Sniffed
    /\ ui.mimeType = "image/webp"
    /\ ui.buffer.head[5] = 255

\* the entries that match the buffer
Matching(b) ==
    { k \in 1..Len(BITMAP_PATTERN_TABLE) : isPatternMatch(b, BITMAP_PATTERN_TABLE[k]) }

\* detection with the table searched in the order given by the permutation
\* `order` of its indices: the type of the first entry that matches
DetectInOrder(b, order) ==
    IF \E i \in 1..Len(order) : order[i] \in Matching(b)
      THEN BITMAP_PATTERN_TABLE[order[CHOOSE i \in 1..Len(order) :
                                          /\ order[i] \in Matching(b)
                                          /\ \A j \in 1..(i - 1) : order[j] \notin Matching(b)]].type
      ELSE UNKNOWN_BITMAP_MIME

\* the table reversed, rotated, and with neighbours swapped
Reorderings ==
    LET n == Len(BITMAP_PATTERN_TABLE) IN
    { [i \in 1..n |-> n + 1 - i],
      [i \in 1..n |-> (i % n) + 1],
      [i \in 1..n |-> IF i % 2 = 1 THEN (IF i < n THEN i + 1 ELSE i) ELSE i - 1],
      [i \in 1..n |-> ((i + 3) % n) + 1] }

\* any two entries disagree at a position both compare in full, so no
\* buffer at all satisfies both
EntriesPairwiseDisjoint ==
    \A k \in 1..Len(BITMAP_PATTERN_TABLE), m \in 1..Len(BITMAP_PATTERN_TABLE) :
        k # m =>
            \E p \in 1..Len(BITMAP_PATTERN_TABLE[k].pattern) :
                /\ p <= Len(BITMAP_PATTERN_TABLE[m].pattern)
                /\ BITMAP_PATTERN_TABLE[k].mask[p] = 255
                /\ BITMAP_PATTERN_TABLE[m].mask[p] = 255
                /\ BITMAP_PATTERN_TABLE[k].pattern[p] # BITMAP_PATTERN_TABLE[m].pattern[p]

\* C20: at most one entry of the table matches any buffer, so the type
\* detectMimeType gives (first match in table order) is the type found with
\* the table in any other order.
C20_AtMostOneEntryMatches ==
    /\ EntriesPairwiseDisjoint
    /\ \A order \in Reorderings : { order[i] : i \in DOMAIN order } = 1..Len(BITMAP_PATTERN_TABLE)
    /\ Sniffed =>
          /\ Cardinality(Matching(ui.buffer)) <= 1
          /\ \A order \in Reorderings : DetectInOrder(ui.buffer, order) = ui.mimeType

\* C20 witness: a GIF87a buffer was sniffed as image/gif, matched by one
\* entry only.
C20_Witness ==
    /\ Sniffed
    /\ ui.mimeType = "image/gif"
    /\ ui.buffer.head[5] = 55
    /\ Cardinality(Matching(ui.buffer)) = 1

=============================================================================
